---------------------------- MODULE Spec2Model ----------------------------
(***************************************************************************)
(* LevitateOS installer LLM tooling: the response decoder and the resource *)
(* verifier of crates/installer/python/llm_server.py, the request handler  *)
(* around them, and the supervised-example compiler of                     *)
(* crates/installer/python/train_lora.py.                                  *)
(*                                                                         *)
(* Text.  A Python str is modelled as a sequence of symbols.  A symbol is  *)
(* a non-empty run of characters; the alphabet is chosen so that every     *)
(* string has exactly one spelling as a symbol sequence, hence equality of *)
(* sequences is equality of strings.  The regular expressions of the       *)
(* source look at single characters; each symbol is classified below by    *)
(* the characters it is made of, and every regular expression is computed  *)
(* on the symbol sequence from these classes:                              *)
(*   Whitespace   symbols made of whitespace only;                         *)
(*   Tags         symbols "<" x ">" with x non-empty, free of "<" and ">"; *)
(*   "<", ">", "{", "}", the double quote, the backslash, ":" and ","      *)
(*                one character each;                                      *)
(*   WordSyms     symbols made of [A-Za-z0-9_] only;                       *)
(*   every other symbol (phrases, "/dev/") contains none of                *)
(*                < > { } " \ and is not whitespace.                       *)
(* A Python dict is a function whose domain is the set of keys present.    *)
(***************************************************************************)
EXTENDS Integers, Sequences, FiniteSets, TLC

VARIABLES
    pc,             \* position of the operation under way
    output,         \* _extract_response: the raw model output (argument)
    result,         \* the dict returned by the last decoder/verifier call
    action,         \* _verify_response: the dict passed in (argument)
    _valid_disks,   \* LLMServer._valid_disks
    _cached_facts,  \* LLMServer._cached_facts
    lsblk,          \* what the lsblk subprocess answers at this moment
    decoded,        \* generate: the dict _extract_response returned
    http,           \* do_POST: the status and body written to the client
    example,        \* a training record (one JSONL line)
    formatted,      \* format_example_for_training's return value
    tokenizer,      \* the tokenizer's configuration (pad/bos tokens)
    max_length,     \* prepare_dataset's max_length
    compiled,       \* tokenize_with_masking's return value
    examples,       \* main: the records load_training_data returned
    args,           \* main: the parsed command line (--eval-split)
    stdout,         \* what prepare_dataset printed
    dataset,        \* main: the Dataset prepare_dataset returned
    train_dataset,  \* main: the rows of dataset to train on
    eval_dataset,   \* main: the rows of dataset to evaluate on, or None
    training_args,  \* main: the TrainingArguments
    previous,       \* the datasets an earlier run of main was left with
    serving,        \* llm_server.py main: the listening socket and the handler
    validation,     \* generate_data.py validate_example: argument and errors
    heap,           \* the list objects a caller and its callee hold
    runner,         \* llm-runner.py main: arguments, position, commands run
    typos,          \* augment_data.py add_typos: arguments, draws and result
    sweep,          \* train_sweep.py main: loop position, results, the file
    sync,           \* annotate_thinking.py run_sync: files and loop position
    annotation      \* generate_data.py cmd_annotate: selection and output

\* the variables of main in python/train_lora.py
trainer_vars == << examples, args, stdout, dataset, train_dataset,
                   eval_dataset, training_args, previous >>

\* the variables of the server and the installer's compiler
core_vars == << pc, output, result, action, _valid_disks, _cached_facts, lsblk,
                decoded, http, example, formatted, tokenizer, max_length,
                compiled >>

\* the variables of the other programs of the repository
tool_vars == << serving, validation, heap, runner, typos, sweep, sync,
                annotation >>

vars == << core_vars, trainer_vars, tool_vars >>

-----------------------------------------------------------------------------
(* Symbol classes *)

Whitespace == {" ", "\n"}

Tags == {"<think>", "</think>", "<tool_call>", "</tool_call>",
         "<|im_start|>", "<|im_end|>"}

Digits == {"1", "5"}

WordSyms == Digits \cup
    {"null", "zero", "urandom", "random", "sda", "sdb", "sdz", "dd", "lsblk",
     "sgdisk", "echo", "hi", "n", "name", "arguments", "command",
     "run_shell_command", "other_tool"}

QUOTE == "\""

BACKSLASH == "\\"

None == [none |-> TRUE]

-----------------------------------------------------------------------------
(* str methods and the regular expressions of llm_server.py *)

\* str.lstrip(): drop the leading run of whitespace
lstrip(s) ==
    IF \A i \in 1..Len(s) : s[i] \in Whitespace THEN << >>
    ELSE SubSeq(s, CHOOSE i \in 1..Len(s) :
                       /\ s[i] \notin Whitespace
                       /\ \A j \in 1..(i - 1) : s[j] \in Whitespace,
                Len(s))

\* str.rstrip(): drop the trailing run of whitespace
rstrip(s) ==
    IF \A i \in 1..Len(s) : s[i] \in Whitespace THEN << >>
    ELSE SubSeq(s, 1, CHOOSE i \in 1..Len(s) :
                          /\ s[i] \notin Whitespace
                          /\ \A j \in (i + 1)..Len(s) : s[j] \in Whitespace)

\* str.strip()
strip(s) == rstrip(lstrip(s))

\* str.find on symbols: least index >= from holding a symbol of syms, else 0
IndexFrom(s, syms, from) ==
    IF \E i \in from..Len(s) : s[i] \in syms
    THEN CHOOSE i \in from..Len(s) :
            /\ s[i] \in syms
            /\ \A j \in from..(i - 1) : s[j] \notin syms
    ELSE 0

\* \s* : the first index >= from that holds no whitespace (Len(s)+1 at the end)
SkipWS(s, from) ==
    IF \E i \in from..Len(s) : s[i] \notin Whitespace
    THEN CHOOSE i \in from..Len(s) :
            /\ s[i] \notin Whitespace
            /\ \A j \in from..(i - 1) : s[j] \in Whitespace
    ELSE Len(s) + 1

NoMatch == [found |-> FALSE, start |-> 0, end |-> 0, group |-> << >>]

\* re.search(r'<think>(.*?)</think>', output, re.DOTALL)
think_search(s) ==
    LET i == IndexFrom(s, {"<think>"}, 1)
        j == IF i = 0 THEN 0 ELSE IndexFrom(s, {"</think>"}, i + 1)
    IN  IF j = 0 THEN NoMatch
        ELSE [found |-> TRUE, start |-> i, end |-> j,
              group |-> SubSeq(s, i + 1, j - 1)]

\* the pattern <tool_call>\s*(\{[^}]+\})\s*</tool_call> anchored at index i
tool_call_at(s, i) ==
    LET k == SkipWS(s, i + 1)
        m == IndexFrom(s, {"}"}, k + 1)
        n == SkipWS(s, m + 1)
    IN  IF /\ s[i] = "<tool_call>"
           /\ k <= Len(s) /\ s[k] = "{"
           /\ m >= k + 2
           /\ n <= Len(s) /\ s[n] = "</tool_call>"
        THEN [found |-> TRUE, start |-> i, end |-> n, group |-> SubSeq(s, k, m)]
        ELSE NoMatch

\* re.search(r'<tool_call>\s*(\{[^}]+\})\s*</tool_call>', output, re.DOTALL)
tool_call_search(s) ==
    LET hits == {i \in 1..Len(s) : tool_call_at(s, i).found}
    IN  IF hits = {} THEN NoMatch
        ELSE tool_call_at(s, CHOOSE i \in hits : \A j \in hits : i <= j)

\* re.sub(r'<think>.*?</think>', '', output, flags=re.DOTALL)
RECURSIVE sub_think(_)
sub_think(s) ==
    LET m == think_search(s)
    IN  IF ~m.found THEN s
        ELSE SubSeq(s, 1, m.start - 1) \o sub_think(SubSeq(s, m.end + 1, Len(s)))

\* re.sub(r'<[^>]+>', '', text)
RECURSIVE sub_tags(_)
sub_tags(s) ==
    LET i == IndexFrom(s, Tags \cup {"<"}, 1)
        j == IndexFrom(s, Tags \cup {">"}, i + 1)
    IN  IF i = 0 THEN s
        ELSE IF s[i] \in Tags
        THEN SubSeq(s, 1, i - 1) \o sub_tags(SubSeq(s, i + 1, Len(s)))
        ELSE IF j = 0 \/ (j = i + 1 /\ s[j] = ">")
        THEN SubSeq(s, 1, i) \o sub_tags(SubSeq(s, i + 1, Len(s)))
        ELSE SubSeq(s, 1, i - 1) \o sub_tags(SubSeq(s, j + 1, Len(s)))

-----------------------------------------------------------------------------
(* json.dumps and json.loads.  JSON values are tagged: t is the Python     *)
(* type of the value, v its content.                                       *)

Str(s) == [t |-> "str", v |-> s]

Dict(d) == [t |-> "dict", v |-> d]

EmptyDict == [k \in {} |-> None]

\* dict.get(key, default)
Get(d, key, default) == IF key \in DOMAIN d THEN d[key] ELSE default

\* d[key] = val
Put(d, key, val) ==
    [k \in DOMAIN d \cup {key} |-> IF k = key THEN val ELSE d[k]]

\* json.dumps of a str: quotes, backslashes and newlines are escaped
RECURSIVE json_escape(_)
json_escape(s) ==
    IF s = << >> THEN s
    ELSE (CASE Head(s) = QUOTE -> << BACKSLASH, QUOTE >>
            [] Head(s) = BACKSLASH -> << BACKSLASH, BACKSLASH >>
            [] Head(s) = "\n" -> << BACKSLASH, "n" >>
            [] OTHER -> << Head(s) >>) \o json_escape(Tail(s))

json_dumps_str(s) == << QUOTE >> \o json_escape(s) \o << QUOTE >>

\* json.dumps({"name": "run_shell_command", "arguments": {"command": c}})
json_dumps_tool_call(c) ==
    << "{" >> \o json_dumps_str(<< "name" >>) \o << ":", " " >>
        \o json_dumps_str(<< "run_shell_command" >>) \o << ",", " " >>
        \o json_dumps_str(<< "arguments" >>) \o << ":", " ", "{" >>
        \o json_dumps_str(<< "command" >>) \o << ":", " " >>
        \o json_dumps_str(c) \o << "}", "}" >>

ParseFail == [ok |-> FALSE, pos |-> 0, val |-> None]

\* the characters of a JSON string after its opening quote, up to the closing one
RECURSIVE parse_string(_, _, _)
parse_string(s, p, acc) ==
    IF p > Len(s) THEN ParseFail
    ELSE IF s[p] = QUOTE THEN [ok |-> TRUE, pos |-> p + 1, val |-> Str(acc)]
    ELSE IF s[p] = BACKSLASH
    THEN IF p + 1 <= Len(s) /\ s[p + 1] \in {QUOTE, BACKSLASH, "n"}
         THEN parse_string(s, p + 2,
                  Append(acc, IF s[p + 1] = "n" THEN "\n" ELSE s[p + 1]))
         ELSE ParseFail
    ELSE IF s[p] = "\n" THEN ParseFail     \* raw control character
    ELSE parse_string(s, p + 1, Append(acc, s[p]))

\* the end of the run of digits that starts at p
RECURSIVE digits_end(_, _)
digits_end(s, p) ==
    IF p <= Len(s) /\ s[p] \in Digits THEN digits_end(s, p + 1) ELSE p

RECURSIVE parse_value(_, _)
RECURSIVE parse_members(_, _, _, _)

\* the members of an object from p on; d holds the members read so far and
\* needMember tells that a comma was just read
parse_members(s, p, d, needMember) ==
    LET p1 == SkipWS(s, p)
    IN  IF p1 > Len(s) THEN ParseFail
        ELSE IF s[p1] = "}"
        THEN IF needMember THEN ParseFail
             ELSE [ok |-> TRUE, pos |-> p1 + 1, val |-> Dict(d)]
        ELSE IF s[p1] # QUOTE THEN ParseFail
        ELSE LET key == parse_string(s, p1 + 1, << >>)
                 p2 == SkipWS(s, key.pos)
                 p3 == SkipWS(s, p2 + 1)
                 val == parse_value(s, p3)
                 p4 == SkipWS(s, val.pos)
                 d2 == Put(d, key.val.v, val.val)
             IN  IF ~key.ok \/ p2 > Len(s) THEN ParseFail
                 ELSE IF s[p2] # ":" THEN ParseFail
                 ELSE IF ~val.ok \/ p4 > Len(s) THEN ParseFail
                 ELSE IF s[p4] = "," THEN parse_members(s, p4 + 1, d2, TRUE)
                 ELSE IF s[p4] = "}"
                 THEN [ok |-> TRUE, pos |-> p4 + 1, val |-> Dict(d2)]
                 ELSE ParseFail

\* one JSON value at p: an object, a string, null or an integer
parse_value(s, p) ==
    IF p > Len(s) THEN ParseFail
    ELSE IF s[p] = "{" THEN parse_members(s, p + 1, EmptyDict, FALSE)
    ELSE IF s[p] = QUOTE THEN parse_string(s, p + 1, << >>)
    ELSE IF s[p] = "null"
    THEN [ok |-> TRUE, pos |-> p + 1, val |-> [t |-> "NoneType", v |-> << >>]]
    ELSE IF s[p] \in Digits
    THEN [ok |-> TRUE, pos |-> digits_end(s, p),
          val |-> [t |-> "int", v |-> SubSeq(s, p, digits_end(s, p) - 1)]]
    ELSE ParseFail

\* json.loads(s): ok = FALSE stands for json.JSONDecodeError
json_loads(s) ==
    LET r == parse_value(s, SkipWS(s, 1))
    IN  IF r.ok /\ SkipWS(s, r.pos) = Len(s) + 1 THEN r ELSE ParseFail

-----------------------------------------------------------------------------
(* LLMServer._extract_response *)

Raise(e) == [exception |-> e]

Raised(r) == "exception" \in DOMAIN r

\* a decoder that stores the reasoning text whatever it is
with_thinking_always(r, thinking) == Put(r, "thinking", thinking)

\* result["thinking"] = thinking, under "if thinking:"
with_thinking(r, thinking) ==
    IF thinking # << >> THEN Put(r, "thinking", thinking) ELSE r

\* lines 312-318: the natural-language branch
text_result(out, thinking) ==
    with_thinking(
        [success |-> TRUE, type |-> "text",
         response |-> strip(sub_tags(sub_think(out)))],
        thinking)

\* lines 303-308, inside the try: tool_data is the parsed payload
command_result(tool_data, out, thinking) ==
    IF /\ << "name" >> \in DOMAIN tool_data
       /\ tool_data[<< "name" >>].t = "str"
       /\ tool_data[<< "name" >>].v = << "run_shell_command" >>
    THEN LET arguments == Get(tool_data, << "arguments" >>, Dict(EmptyDict))
         IN  IF arguments.t # "dict" THEN Raise("AttributeError")
             ELSE LET cmd == Get(arguments.v, << "command" >>, Str(<< >>))
                  IN  IF cmd.t # "str" THEN Raise("AttributeError")
                      ELSE with_thinking(
                               [success |-> TRUE, type |-> "command",
                                command |-> strip(cmd.v)],
                               thinking)
    ELSE text_result(out, thinking)

\* a decoder that looks at the server's valid set before it reads a tool call
_extract_response_reading_disks(out) ==
    LET tool_call_match == tool_call_search(out)
        parsed == json_loads(tool_call_match.group)
    IN  IF tool_call_match.found /\ parsed.ok /\ _valid_disks # {}
        THEN command_result(parsed.val.v, out, << >>)
        ELSE text_result(out, << >>)

_extract_response(out) ==
    LET think_match == think_search(out)
        \* thinking = None is << >>: an empty block is None as well (295-296)
        thinking == IF think_match.found THEN strip(think_match.group) ELSE << >>
        tool_call_match == tool_call_search(out)
        parsed == json_loads(tool_call_match.group)
    IN  IF tool_call_match.found /\ parsed.ok
        THEN command_result(parsed.val.v, out, thinking)
        ELSE text_result(out, thinking)

-----------------------------------------------------------------------------
(* The other extractors of the installer package: ModelEvaluator.generate  *)
(* of evaluate_lora.py and parse_response of test_model.py                 *)

\* the literal text call:run_shell_command{command:<escape>
CallPrefix ==
    << "call", ":", "run_shell_command", "{", "command", ":", "<escape>" >>

\* the pattern call:run_shell_command\{command:<escape>(.*?)<escape>\}
\* anchored at index i
command_pattern_at(s, i) ==
    LET k == i + Len(CallPrefix)
        ends == {j \in k..(Len(s) - 1) : s[j] = "<escape>" /\ s[j + 1] = "}"}
    IN  IF /\ k - 1 <= Len(s)
           /\ SubSeq(s, i, k - 1) = CallPrefix
           /\ ends # {}
        THEN LET j == CHOOSE e \in ends : \A f \in ends : e <= f
             IN  [found |-> TRUE, start |-> i, end |-> j + 1,
                  group |-> SubSeq(s, k, j - 1)]
        ELSE NoMatch

\* evaluate_lora.py lines 378-379: re.search(command_pattern, raw_output,
\* re.DOTALL)
command_pattern_search(s) ==
    LET hits == {i \in 1..Len(s) : command_pattern_at(s, i).found}
    IN  IF hits = {} THEN NoMatch
        ELSE command_pattern_at(s, CHOOSE i \in hits : \A j \in hits : i <= j)

\* evaluate_lora.py lines 377-386: the pair (command, text) of what the
\* model generated
evaluator_extract(raw_output) ==
    LET match == command_pattern_search(raw_output)
    IN  IF match.found
        THEN [command |-> Str(strip(match.group)), text |-> None]
        ELSE [command |-> None, text |-> Str(strip(sub_tags(raw_output)))]

\* the pattern "command"\s*:\s*"([^"]+)" anchored at index i
command_field_at(s, i) ==
    LET k == SkipWS(s, i + 3)
        n == SkipWS(s, k + 1)
        q == IndexFrom(s, {QUOTE}, n + 1)
    IN  IF /\ i + 2 <= Len(s)
           /\ s[i] = QUOTE /\ s[i + 1] = "command" /\ s[i + 2] = QUOTE
           /\ k <= Len(s) /\ s[k] = ":"
           /\ n <= Len(s) /\ s[n] = QUOTE
           /\ q >= n + 2
        THEN [found |-> TRUE, start |-> i, end |-> q,
              group |-> SubSeq(s, n + 1, q - 1)]
        ELSE NoMatch

\* test_model.py lines 147-169; line 161 is
\* re.search(r'"command"\s*:\s*"([^"]+)"', response), the leftmost match
parse_response(response) ==
    LET tool_call_match == tool_call_search(response)
        parsed == json_loads(tool_call_match.group)
        tool_data == parsed.val.v
        hits == {i \in 1..Len(response) : command_field_at(response, i).found}
        func_match ==
            IF hits = {} THEN NoMatch
            ELSE command_field_at(response,
                                  CHOOSE i \in hits : \A j \in hits : i <= j)
    IN  IF /\ tool_call_match.found /\ parsed.ok
           /\ << "name" >> \in DOMAIN tool_data
           /\ tool_data[<< "name" >>].t = "str"
           /\ tool_data[<< "name" >>].v = << "run_shell_command" >>
        THEN LET arguments == Get(tool_data, << "arguments" >>, Dict(EmptyDict))
             IN  IF arguments.t # "dict" THEN Raise("AttributeError")
                 ELSE LET cmd == Get(arguments.v, << "command" >>, Str(<< >>))
                      IN  IF cmd.t # "str" THEN Raise("AttributeError")
                          ELSE [type |-> "command", command |-> strip(cmd.v)]
        ELSE IF func_match.found
        THEN [type |-> "command", command |-> strip(func_match.group)]
        ELSE [type |-> "text", response |-> strip(sub_tags(response))]

-----------------------------------------------------------------------------
(* LLMServer._verify_response *)

\* the end of the run of word characters (\w+) that starts at p
RECURSIVE word_end(_, _)
word_end(s, p) ==
    IF p <= Len(s) /\ s[p] \in WordSyms THEN word_end(s, p + 1) ELSE p - 1

\* re.findall(r'/dev/\w+', command): the matches, left to right
RECURSIVE findall_dev(_)
findall_dev(s) ==
    IF s = << >> THEN << >>
    ELSE IF Head(s) = "/dev/" /\ word_end(s, 2) >= 2
    THEN << SubSeq(s, 1, word_end(s, 2)) >>
             \o findall_dev(SubSeq(s, word_end(s, 2) + 1, Len(s)))
    ELSE findall_dev(Tail(s))

\* the pseudo-device list with one entry forgotten
PseudoDevices_without_urandom ==
    {<< "/dev/", "null" >>, << "/dev/", "zero" >>, << "/dev/", "random" >>}

\* line 330: the common pseudo-devices
PseudoDevices ==
    {<< "/dev/", "null" >>, << "/dev/", "zero" >>,
     << "/dev/", "urandom" >>, << "/dev/", "random" >>}

\* lines 335-341: the dict returned for a hallucinated disk
blocked(path) ==
    [success |-> TRUE, type |-> "text",
     response |-> << "I couldn't find " >> \o path
         \o << " on this system. Let me check what disks are available." >>,
     warning |-> << "Blocked hallucinated disk: " >> \o path,
     suggested_command |-> << "lsblk" >>]

\* a loop that returns after looking at the first path only
hallucinated_first_only(dev_paths, valid_disks) ==
    {i \in {1} \cap (1..Len(dev_paths)) :
        dev_paths[i] \notin PseudoDevices /\ dev_paths[i] \notin valid_disks}

\* line 333 under the loop of 328-331: the paths the loop stops at
hallucinated(dev_paths, valid_disks) ==
    {i \in 1..Len(dev_paths) :
        dev_paths[i] \notin PseudoDevices /\ dev_paths[i] \notin valid_disks}

\* a verifier that inspects the text of a text response as well
_verify_response_inspects_text(res, valid_disks) ==
    LET dev_paths == findall_dev(Get(res, "command", Get(res, "response", << >>)))
        bad == hallucinated(dev_paths, valid_disks)
    IN  IF bad = {} THEN res
        ELSE blocked(dev_paths[CHOOSE i \in bad : \A j \in bad : i <= j])

\* a verifier that reports every command it has looked at
_verify_response_warns(res, valid_disks) ==
    IF "type" \in DOMAIN res /\ res.type = "command"
    THEN LET dev_paths == findall_dev(Get(res, "command", << >>))
             bad == hallucinated(dev_paths, valid_disks)
         IN  IF bad = {} THEN Put(res, "warning", << "Checked devices" >>)
             ELSE blocked(dev_paths[CHOOSE i \in bad : \A j \in bad : i <= j])
    ELSE res

\* a verifier that lets every command through when it knows of no disk
_verify_response_open_when_empty(res, valid_disks) ==
    IF "type" \in DOMAIN res /\ res.type = "command" /\ valid_disks # {}
    THEN LET dev_paths == findall_dev(Get(res, "command", << >>))
             bad == hallucinated(dev_paths, valid_disks)
         IN  IF bad = {} THEN res
             ELSE blocked(dev_paths[CHOOSE i \in bad : \A j \in bad : i <= j])
    ELSE res

_verify_response(res, valid_disks) ==
    IF "type" \in DOMAIN res /\ res.type = "command"
    THEN LET dev_paths == findall_dev(Get(res, "command", << >>))
             bad == hallucinated(dev_paths, valid_disks)
         IN  IF bad = {} THEN res
             ELSE blocked(dev_paths[CHOOSE i \in bad : \A j \in bad : i <= j])
    ELSE res

-----------------------------------------------------------------------------
(* Bounded inputs *)

MaxChunks == 3

MaxCmdChunks == 3

\* every concatenation of at most n members of chunks
RECURSIVE Concats(_, _)
Concats(chunks, n) ==
    IF n = 0 THEN {<< >>}
    ELSE LET shorter == Concats(chunks, n - 1)
         IN  shorter \cup {p \o c : p \in shorter, c \in chunks}

ToolCall(payload) == << "<tool_call>", "\n" >> \o payload \o << "\n", "</tool_call>" >>

Think(t) == << "<think>" >> \o t \o << "</think>" >>

\* {"name": "run_shell_command"}
FlatPayload ==
    << "{" >> \o json_dumps_str(<< "name" >>) \o << ":", " " >>
        \o json_dumps_str(<< "run_shell_command" >>) \o << "}" >>

\* {"name": "run_shell_command", "arguments": "hi"}
StrArgsPayload ==
    << "{" >> \o json_dumps_str(<< "name" >>) \o << ":", " " >>
        \o json_dumps_str(<< "run_shell_command" >>) \o << ",", " " >>
        \o json_dumps_str(<< "arguments" >>) \o << ":", " " >>
        \o json_dumps_str(<< "hi" >>) \o << "}" >>

\* {"name": "other_tool"}
OtherPayload ==
    << "{" >> \o json_dumps_str(<< "name" >>) \o << ":", " " >>
        \o json_dumps_str(<< "other_tool" >>) \o << "}" >>

\* {hi}
MalformedPayload == << "{", "hi", "}" >>

RawChunks ==
    {<< "hi" >>, << " " >>, << "<|im_end|>" >>,
     Think(<< "hi" >>), Think(<< " " >>),
     << "<think>" >>, << "<tool_call>" >>, << "</tool_call>" >>,
     ToolCall(json_dumps_tool_call(<< "lsblk" >>)),
     ToolCall(FlatPayload), ToolCall(StrArgsPayload),
     ToolCall(OtherPayload), ToolCall(MalformedPayload),
     FlatPayload}

\* the raw texts the model may generate
RawOutputs == Concats(RawChunks, MaxChunks)

CmdChunks ==
    {<< "dd" >>, << " " >>, << "1" >>, << "/dev/" >>,
     << "/dev/", "sda" >>, << "/dev/", "sdb" >>,
     << "/dev/", "null" >>, << "/dev/", "zero" >>,
     << "/dev/", "urandom" >>, << "/dev/", "random" >>}

Commands == Concats(CmdChunks, MaxCmdChunks)

\* the dicts a caller may pass to _verify_response
Actions ==
    {[success |-> TRUE, type |-> "command", command |-> c] : c \in Commands}
    \cup {[success |-> TRUE, type |-> "command", command |-> c,
           thinking |-> << "hi" >>] : c \in Commands}
    \cup {[success |-> TRUE, type |-> "text", response |-> c] : c \in Commands}

-----------------------------------------------------------------------------
(* gather_system_facts, LLMServer._refresh_system_facts, generate, do_POST *)

MaxServerChunks == 1

\* lsblk -J block devices: a disk with one partition, a bare disk, a loop device
Sda == [name |-> << "sda" >>, type |-> "disk", children |-> << << "sda", "1" >> >>]

Sdb == [name |-> << "sdb" >>, type |-> "disk"]

Loop0 == [name |-> << "loop0" >>, type |-> "loop", children |-> << << "loop0p1" >> >>]

\* what running lsblk can come to: output that parses (returncode 0), a
\* non-zero return code, or an exception (timeout, missing binary, bad JSON)
LsblkAnswers ==
    {[outcome |-> "ok", blockdevices |-> devs] :
        devs \in {<< >>, << Sda >>, << Sda, Sdb >>, << Loop0, Sdb >>}}
    \cup {[outcome |-> "nonzero"], [outcome |-> "exception"]}

\* lines 33-42: the "disks" part of the facts (the other facts, 44-100, are
\* boot mode, mounts, network, hostname, timezone and users)
gather_system_facts(answer) ==
    CASE answer.outcome = "ok" ->
            [disks |-> [blockdevices |-> answer.blockdevices]]
      [] answer.outcome = "exception" -> [disks_error |-> << "error" >>]
      [] OTHER -> EmptyDict

\* lines 232-239
valid_disks_of(facts) ==
    IF "disks" \in DOMAIN facts /\ "blockdevices" \in DOMAIN facts.disks
    THEN LET devs == facts.disks.blockdevices
             disks == {i \in 1..Len(devs) : devs[i].type = "disk"}
         IN  {<< "/dev/" >> \o devs[i].name : i \in disks}
             \cup UNION {{<< "/dev/" >> \o devs[i].children[j] :
                             j \in 1..Len(devs[i].children)} :
                          i \in {k \in disks : "children" \in DOMAIN devs[k]}}
    ELSE {}


\* the raw texts the model generates while serving
ServerRawOutputs == Concats(RawChunks, MaxServerChunks)

\* a refresh that keeps the set it has when this enumeration names no disk
refresh_system_facts_keeping_disks(answer) ==
    LET facts == gather_system_facts(answer)
    IN  [facts |-> facts,
         valid |-> IF valid_disks_of(facts) = {} THEN _valid_disks
                   ELSE valid_disks_of(facts)]

\* lines 226-241 of generate: the facts gathered afresh and the valid set
refresh_system_facts(answer) ==
    LET facts == gather_system_facts(answer)
    IN  [facts |-> facts, valid |-> valid_disks_of(facts)]

\* lines 282-287 of generate, from the decoder's return value on: an
\* exception of the decoder passes through generate
verify_extracted(extracted, valid) ==
    IF Raised(extracted) THEN extracted
    ELSE _verify_response(extracted, valid)

\* lines 366-375 of do_POST: what is written for generate's outcome
http_response(returned) ==
    IF Raised(returned)
    THEN [status |-> 500,
          body |-> [success |-> FALSE, error |-> << returned.exception >>]]
    ELSE [status |-> 200, body |-> returned]

-----------------------------------------------------------------------------
(* crates/installer/python/train_lora.py: format_example_for_training and  *)
(* prepare_dataset.  The chat template and the tokenizer are the           *)
(* transformers library's: the template renders ChatML turns, the          *)
(* tokenizer gives one token to each symbol.                               *)

Vocab ==
    << "<pad>", "<s>", "<|endoftext|>", "<|im_start|>", "<|im_end|>", "\n",
       " ", "system", "user", "assistant", "/no_think ",
       "SYSTEM_PROMPT_TEMPLATE head", "SYSTEM_PROMPT_TEMPLATE tail",
       "DEFAULT_SYSTEM_CONTEXT", "ctx", "list disks", "$ ", "lsblk", "hi",
       "<tool_call>", "</tool_call>", "<think>", "</think>", "{", "}",
       QUOTE, BACKSLASH, ":", ",", "n", "name", "run_shell_command",
       "arguments", "command", "echo", "dd", "/dev/", "sda", "tool" >>

token_id(sym) == CHOOSE i \in DOMAIN Vocab : Vocab[i] = sym

\* the label the loss ignores
IGNORE_INDEX == -100

\* lines 143-144
system_prompt(ex) ==
    << "/no_think ", "SYSTEM_PROMPT_TEMPLATE head" >>
        \o Get(ex, "system_context", << "DEFAULT_SYSTEM_CONTEXT" >>)
        \o << "SYSTEM_PROMPT_TEMPLATE tail" >>

\* lines 147-155: the system turn, then the history
history_messages(ex) ==
    << [role |-> "system", content |-> system_prompt(ex)] >>
        \o [i \in 1..Len(ex.messages) |->
               IF /\ ex.messages[i].role = "assistant"
                  /\ ex.messages[i].content # << >>
                  /\ Head(ex.messages[i].content) = "$ "
               THEN [role |-> "assistant", content |-> ex.messages[i].content]
               ELSE [role |-> ex.messages[i].role,
                     content |-> ex.messages[i].content]]

\* lines 162-168 and 208-212: the tool-call text of a command
tool_call_text(command) ==
    << "<tool_call>", "\n" >> \o json_dumps_tool_call(command)
        \o << "\n", "</tool_call>" >>

\* lines 158-175: the assistant turn synthesized from expected_response
assistant_message(ex) ==
    LET expected == ex.expected_response
    IN  IF expected.type = "command"
        THEN [role |-> "assistant", content |-> tool_call_text(expected.command)]
        ELSE [role |-> "assistant", content |-> Get(expected, "response", << >>)]

\* one ChatML turn: <|im_start|>role\ncontent<|im_end|>\n
render_turn(msg) ==
    << "<|im_start|>", msg.role, "\n" >> \o msg.content \o << "<|im_end|>", "\n" >>

RECURSIVE render_turns(_)
render_turns(msgs) ==
    IF msgs = << >> THEN << >>
    ELSE render_turn(Head(msgs)) \o render_turns(Tail(msgs))

\* tokenizer.apply_chat_template(messages, tokenize=False, ...)
apply_chat_template(msgs, add_generation_prompt) ==
    render_turns(msgs)
        \o (IF add_generation_prompt
            THEN << "<|im_start|>", "assistant", "\n" >> ELSE << >>)

\* lines 187-192: the prompt built by hand when the template raises
fallback_prompt(ex) ==
    render_turn([role |-> "system", content |-> system_prompt(ex)])
        \o render_turns(ex.messages)
        \o << "<|im_start|>", "assistant", "\n" >>

\* lines 205-215: the full text built by hand when the template raises
fallback_full(ex, prompt_text) ==
    prompt_text
        \o (IF ex.expected_response.type = "command"
            THEN tool_call_text(ex.expected_response.command)
            ELSE Get(ex.expected_response, "response", << >>))
        \o << "<|im_end|>", "\n" >>

\* lines 125-217; tok.template tells which calls of the template raise
format_example_for_training(ex, tok) ==
    LET messages == history_messages(ex)
        prompt_text ==
            IF tok.template = "raises" THEN fallback_prompt(ex)
            ELSE apply_chat_template(messages, TRUE)
        messages_with_response == messages \o << assistant_message(ex) >>
        full_text ==
            IF tok.template \in {"raises", "raises on full text"}
            THEN fallback_full(ex, prompt_text)
            ELSE apply_chat_template(messages_with_response, FALSE)
    IN  [full_text |-> full_text, prompt_text |-> prompt_text]

\* lines 349-351: a tokenizer without a padding token pads with eos
ensure_padding_token(tok) ==
    IF tok.pad_token = "None" THEN [tok EXCEPT !.pad_token = tok.eos_token]
    ELSE tok

Min(a, b) == IF a <= b THEN a ELSE b

\* a tokenizer call that truncates and never pads
tokenizer_call_unpadded(tok, text, n, padding, add_special_tokens) ==
    LET special == IF add_special_tokens /\ tok.bos_token # "None"
                   THEN << token_id(tok.bos_token) >> ELSE << >>
        all == special \o [i \in 1..Len(text) |-> token_id(text[i])]
        kept == SubSeq(all, 1, Min(Len(all), n))
    IN  [input_ids |-> kept, attention_mask |-> [i \in 1..Len(kept) |-> 1]]

\* tokenizer(text, truncation=True, max_length=n, ...): right-truncated, and
\* right-padded to n under padding="max_length"
tokenizer_call(tok, text, n, padding, add_special_tokens) ==
    LET special == IF add_special_tokens /\ tok.bos_token # "None"
                   THEN << token_id(tok.bos_token) >> ELSE << >>
        all == special \o [i \in 1..Len(text) |-> token_id(text[i])]
        kept == SubSeq(all, 1, Min(Len(all), n))
        fill == IF padding THEN n - Len(kept) ELSE 0
    IN  [input_ids |-> kept \o [i \in 1..fill |-> token_id(tok.pad_token)],
         attention_mask |-> [i \in 1..Len(kept) |-> 1] \o [i \in 1..fill |-> 0]]

\* lines 245-254
prompt_len(ex, tok, n) ==
    Len(tokenizer_call(tok, ex.prompt_text, n, FALSE, FALSE).input_ids)

\* lines 256-261; Python's index i is position i + 1 here
mask_labels(input_ids, promptLength, pad_token_id) ==
    [p \in 1..Len(input_ids) |->
        IF p - 1 >= promptLength /\ input_ids[p] # pad_token_id
        THEN input_ids[p] ELSE IGNORE_INDEX]

\* lines 234-267
tokenize_with_masking(ex, tok, n) ==
    LET full_tokens == tokenizer_call(tok, ex.full_text, n, TRUE, TRUE)
    IN  [input_ids |-> full_tokens.input_ids,
         attention_mask |-> full_tokens.attention_mask,
         labels |-> mask_labels(full_tokens.input_ids, prompt_len(ex, tok, n),
                                token_id(tok.pad_token))]

\* training records
UserTurn(c) == [role |-> "user", content |-> c]

Conversations ==
    {<< UserTurn(<< "list disks" >>) >>,
     << UserTurn(<< "list disks" >>),
        [role |-> "assistant", content |-> << "$ ", "lsblk" >>],
        UserTurn(<< "hi" >>) >>}

ExpectedCommands ==
    {<< "lsblk" >>, << " ", "lsblk", " " >>,
     << "echo", " ", QUOTE, "hi", QUOTE >>, << "dd", " ", "/dev/", "sda" >>}

ExpectedResponses ==
    {[type |-> "command", command |-> c] : c \in ExpectedCommands}
    \cup {[type |-> "command", command |-> c, thinking |-> << "hi" >>] :
            c \in ExpectedCommands}
    \cup {[type |-> "text", response |-> << "hi" >>],
          [type |-> "text", response |-> << >>],
          [type |-> "text"],
          [type |-> "text", response |-> << "hi" >>, thinking |-> << "hi" >>]}

Examples ==
    {[messages |-> m, expected_response |-> e] :
        m \in Conversations, e \in ExpectedResponses}
    \cup {[messages |-> m, expected_response |-> e, system_context |-> << "ctx" >>] :
            m \in Conversations, e \in ExpectedResponses}

\* AutoTokenizer.from_pretrained(model_path), line 346: tokenizers differ in
\* their padding, end and begin tokens; template tells when the chat
\* template raises
Tokenizers ==
    [pad_token : {"None", "<pad>"},
     eos_token : {"<|im_end|>", "<|endoftext|>"},
     bos_token : {"None", "<s>"},
     template : {"renders", "raises", "raises on full text"}]

\* --max-length: shorter than a prompt, shorter than a tool call after its
\* prompt, longer than every text
MaxLengths == {16, 40, 96}

-----------------------------------------------------------------------------
(* python/train_lora.py: format_example_for_training, prepare_dataset and  *)
(* main.  The records carry their own system turn, if any; the tokenizer   *)
(* and tokenize_with_masking are those of the installer's trainer.         *)

\* lines 92-110: the content of the assistant turn synthesized from
\* expected_response
expected_content(expected) ==
    LET thinking == Get(expected, "thinking", << >>)
        block == IF thinking # << >>
                 THEN << "<think>", "\n" >> \o thinking
                          \o << "\n", "</think>", "\n", "\n" >>
                 ELSE << >>
    IN  IF "type" \in DOMAIN expected /\ expected.type = "command"
        THEN block \o tool_call_text(expected.command)
        ELSE block \o Get(expected, "response", << >>)

\* a search that stops at the first assistant turn from the front
first_assistant(messages) ==
    IF \E i \in DOMAIN messages : messages[i].role = "assistant"
    THEN CHOOSE i \in DOMAIN messages :
            /\ messages[i].role = "assistant"
            /\ \A j \in DOMAIN messages : messages[j].role = "assistant" => i <= j
    ELSE 0

\* lines 116-120: the index of the last assistant turn, 0 when there is none
last_assistant(messages) ==
    IF \E i \in DOMAIN messages : messages[i].role = "assistant"
    THEN CHOOSE i \in DOMAIN messages :
            /\ messages[i].role = "assistant"
            /\ \A j \in DOMAIN messages : messages[j].role = "assistant" => j <= i
    ELSE 0

\* lines 88-124: the turns of the prompt and the assistant turn to predict,
\* or None
target_of(ex) ==
    IF "expected_response" \in DOMAIN ex
    THEN [messages |-> ex.messages,
          assistant_message |->
              [role |-> "assistant",
               content |-> expected_content(ex.expected_response)]]
    ELSE LET i == last_assistant(ex.messages)
         IN  IF i = 0 THEN None
             ELSE [messages |-> SubSeq(ex.messages, 1, i - 1),
                   assistant_message |-> ex.messages[i]]

SupportedRoles == {"system", "user", "assistant"}

\* whether tokenizer.apply_chat_template raises on these turns: a strict
\* template refuses a role it does not know and two turns of one role in a row
template_raises(tok, msgs) ==
    /\ tok.template = "strict"
    /\ \/ \E i \in DOMAIN msgs : msgs[i].role \notin SupportedRoles
       \/ \E i \in 1..(Len(msgs) - 1) : msgs[i].role = msgs[i + 1].role

\* lines 82-150 of python/train_lora.py
generic_format_example_for_training(ex, tok) ==
    LET t == target_of(ex)
    IN  IF t = None THEN None
        ELSE IF template_raises(tok, t.messages) THEN None
        ELSE IF template_raises(tok, t.messages \o << t.assistant_message >>)
        THEN None
        ELSE [full_text |->
                  apply_chat_template(t.messages \o << t.assistant_message >>, FALSE),
              prompt_text |-> apply_chat_template(t.messages, TRUE)]

\* lines 153-205 of python/train_lora.py: the records kept, the line printed
\* and the tokenized rows
generic_prepare_dataset(exs, tok, n) ==
    LET results == [i \in 1..Len(exs) |->
                       generic_format_example_for_training(exs[i], tok)]
        kept == SelectSeq(results, LAMBDA r : r # None)
    IN  [formatted |-> kept,
         stdout |-> [Formatted |-> Len(kept), of |-> Len(exs)],
         tokenized |-> [i \in 1..Len(kept) |->
                           tokenize_with_masking(kept[i], tok, n)]]

\* seed=42 of line 288
seed == 42

RECURSIVE shuffle(_, _)
\* numpy's Generator.permutation: the order is a fixed function of the seed
\* and the length; here each draw takes the (seed div k) mod k-th of the k
\* rows that are left
shuffle(rest, sd) ==
    IF rest = << >> THEN << >>
    ELSE LET k == Len(rest)
             d == ((sd \div k) % k) + 1
         IN  << rest[d] >>
                 \o shuffle(SubSeq(rest, 1, d - 1) \o SubSeq(rest, d + 1, k), sd)

\* np.random.default_rng(seed).permutation(n): without a seed the generator
\* is keyed by fresh entropy
generator_permutations(sd, n) ==
    IF sd \in Int THEN {shuffle([i \in 1..n |-> i], sd)} ELSE Permutations(1..n)

\* Dataset.select(indices): the rows of the prepared dataset at these indices
Rows(indices) == [_indices |-> indices]

\* a split that leaves the generator unseeded
train_test_split_unseeded(n_samples, test_size, sd) ==
    LET n_test == (test_size * n_samples + 99) \div 100
        n_train == n_samples - n_test
    IN  IF test_size >= 100 \/ n_train = 0 THEN {Raise("ValueError")}
        ELSE {[train |-> Rows(SubSeq(p, n_test + 1, n_test + n_train)),
               test |-> Rows(SubSeq(p, 1, n_test))] :
                 p \in Permutations(1..n_samples)}

\* Dataset.train_test_split(test_size=..., seed=...): test_size is the
\* fraction in hundredths; the rows are named by their index in the dataset
train_test_split(n_samples, test_size, sd) ==
    LET n_test == (test_size * n_samples + 99) \div 100      \* ceil
        n_train == n_samples - n_test
    IN  IF test_size >= 100 \/ n_train = 0 THEN {Raise("ValueError")}
        ELSE {[train |-> Rows(SubSeq(p, n_test + 1, n_test + n_train)),
               test |-> Rows(SubSeq(p, 1, n_test))] :
                 p \in generator_permutations(sd, n_samples)}

\* arguments that ask for evaluation whatever the evaluation set is
training_arguments_always_evaluating(eval) ==
    [eval_strategy |-> "epoch",
     save_strategy |-> "epoch",
     load_best_model_at_end |-> TRUE,
     metric_for_best_model |-> "eval_loss"]

\* lines 366-390: the arguments that depend on eval_dataset; a Dataset
\* without rows is false
training_arguments(eval) ==
    [eval_strategy |->
         IF eval # None /\ eval._indices # << >> THEN "epoch" ELSE "no",
     save_strategy |-> "epoch",
     load_best_model_at_end |-> eval # None,
     metric_for_best_model |->
         IF eval # None /\ eval._indices # << >> THEN "eval_loss" ELSE "None"]

MaxExamples == 2

\* records of the generic trainer
AssistantTurn(c) == [role |-> "assistant", content |-> c]

GenericExpected ==
    {[type |-> "command", command |-> << "lsblk" >>],
     [type |-> "command", command |-> << "lsblk" >>, thinking |-> << "hi" >>],
     [type |-> "command", command |-> << "lsblk" >>, thinking |-> << " " >>],
     [type |-> "text", response |-> << "hi" >>],
     [type |-> "text", response |-> << "hi" >>, thinking |-> << "hi" >>],
     [type |-> "text", response |-> << "hi" >>, thinking |-> << " ", "\n" >>]}

GenericExamples ==
    {[messages |-> << UserTurn(<< "list disks" >>) >>, expected_response |-> e] :
        e \in GenericExpected}
    \cup {[messages |-> << UserTurn(<< "list disks" >>) >>],
          [messages |-> << UserTurn(<< "list disks" >>),
                           AssistantTurn(<< "hi" >>), UserTurn(<< "hi" >>) >>],
          [messages |-> << UserTurn(<< "list disks" >>),
                           AssistantTurn(<< "hi" >>), UserTurn(<< "hi" >>),
                           AssistantTurn(<< "lsblk" >>) >>],
          [messages |-> << [role |-> "tool", content |-> << "hi" >>] >>,
           expected_response |-> [type |-> "text", response |-> << "hi" >>]],
          [messages |-> << UserTurn(<< "list disks" >>),
                           AssistantTurn(<< "hi" >>) >>,
           expected_response |-> [type |-> "text", response |-> << "hi" >>]]}

\* the lists load_training_data can return
ExampleLists == UNION {[1..n -> GenericExamples] : n \in 0..MaxExamples}

GenericTokenizers ==
    [pad_token : {"None"},
     eos_token : {"<|im_end|>"},
     bos_token : {"None"},
     template : {"renders", "strict"}]

\* --eval-split, in hundredths
EvalSplits == {0, 10, 50}

-----------------------------------------------------------------------------
(* State machine.  Variables an operation does not use hold Idle.          *)

Idle == None

InitServerFields ==
    /\ _cached_facts = None        \* line 223
    /\ _valid_disks = {}           \* line 224

IdleDecoder == output = Idle /\ decoded = Idle

IdleVerifier == action = Idle

IdleServer == lsblk = Idle /\ http = Idle

IdleCompiler ==
    /\ example = Idle /\ formatted = Idle /\ tokenizer = Idle
    /\ max_length = 0 /\ compiled = Idle

IdleTrainer ==
    /\ examples = Idle /\ args = Idle /\ stdout = Idle /\ dataset = Idle
    /\ train_dataset = Idle /\ eval_dataset = Idle /\ training_args = Idle
    /\ previous = Idle

\* the programs named in active run, the others are not started
IdleTools(active) ==
    /\ IF "serving" \in active THEN TRUE ELSE serving = Idle
    /\ IF "validation" \in active THEN TRUE ELSE validation = Idle
    /\ IF "heap" \in active THEN TRUE ELSE heap = Idle
    /\ IF "runner" \in active THEN TRUE ELSE runner = Idle
    /\ IF "typos" \in active THEN TRUE ELSE typos = Idle
    /\ IF "sweep" \in active THEN TRUE ELSE sweep = Idle
    /\ IF "sync" \in active THEN TRUE ELSE sync = Idle
    /\ IF "annotation" \in active THEN TRUE ELSE annotation = Idle

\* the server and the compiler are not started
IdleCore ==
    /\ pc = "idle" /\ result = Idle
    /\ InitServerFields /\ IdleDecoder /\ IdleVerifier /\ IdleServer
    /\ IdleCompiler

(* --- the decoder called on its own --- *)

InitDecode ==
    /\ IdleTools({})
    /\ pc = "extract_call"
    /\ output \in RawOutputs
    /\ result = Idle /\ decoded = Idle
    /\ InitServerFields /\ IdleVerifier /\ IdleServer /\ IdleCompiler
    /\ IdleTrainer

ExtractResponse ==
    /\ pc = "extract_call"
    /\ result' = _extract_response(output)
    /\ pc' = IF Raised(result') THEN "extract_raised" ELSE "extract_return"
    /\ UNCHANGED << output, action, _valid_disks, _cached_facts, lsblk,
                    decoded, http, example, formatted, tokenizer, max_length,
                    compiled,
                    trainer_vars, tool_vars >>

NextDecode == ExtractResponse

SpecDecode == InitDecode /\ [][NextDecode]_vars

(* --- the verifier called on its own --- *)

InitVerify ==
    /\ IdleTools({})
    /\ pc = "verify_call"
    /\ action \in Actions
    \* generate has refreshed the facts from the lsblk answer of this request
    /\ lsblk \in LsblkAnswers
    /\ _cached_facts = gather_system_facts(lsblk)
    /\ _valid_disks = valid_disks_of(_cached_facts)
    /\ result = Idle /\ http = Idle
    /\ IdleDecoder /\ IdleCompiler /\ IdleTrainer

VerifyResponse ==
    /\ pc = "verify_call"
    /\ result' = _verify_response(action, _valid_disks)
    /\ pc' = "verify_return"
    /\ UNCHANGED << output, action, _valid_disks, _cached_facts, lsblk,
                    decoded, http, example, formatted, tokenizer, max_length,
                    compiled,
                    trainer_vars, tool_vars >>

NextVerify == VerifyResponse

SpecVerify == InitVerify /\ [][NextVerify]_vars

(* --- the HTTP server: one request at a time (HTTPServer.serve_forever) --- *)

InitServer ==
    /\ IdleTools({})
    /\ pc = "serve_forever"
    /\ InitServerFields
    /\ lsblk \in LsblkAnswers
    /\ output = Idle /\ decoded = Idle /\ result = Idle /\ http = Idle
    /\ IdleVerifier /\ IdleCompiler /\ IdleTrainer

\* disks are attached and removed, lsblk starts or stops failing
DiskChange ==
    /\ \E a \in LsblkAnswers \ {lsblk} : lsblk' = a
    /\ UNCHANGED << pc, output, result, action, _valid_disks, _cached_facts,
                    decoded, http, example, formatted, tokenizer, max_length,
                    compiled,
                    trainer_vars, tool_vars >>

\* lines 352-354: a path other than /query
do_POST_not_found ==
    /\ http' = [status |-> 404]
    /\ output' = Idle /\ decoded' = Idle /\ result' = Idle
    /\ UNCHANGED << pc, action, _valid_disks, _cached_facts, lsblk, example,
                    formatted, tokenizer, max_length, compiled,
                    trainer_vars, tool_vars >>

\* lines 359-360, 371-375: the request body is not JSON
do_POST_bad_body ==
    /\ http' = [status |-> 500,
                body |-> [success |-> FALSE, error |-> << "JSONDecodeError" >>]]
    /\ output' = Idle /\ decoded' = Idle /\ result' = Idle
    /\ UNCHANGED << pc, action, _valid_disks, _cached_facts, lsblk, example,
                    formatted, tokenizer, max_length, compiled,
                    trainer_vars, tool_vars >>

\* lines 359-375: a well-formed query; raw is what the model generates
do_POST_query ==
    \E raw \in ServerRawOutputs :
    \E fresh \in {refresh_system_facts(lsblk)} :
    \E extracted \in {_extract_response(raw)} :
    \E returned \in {verify_extracted(extracted, fresh.valid)} :
        /\ _cached_facts' = fresh.facts
        /\ _valid_disks' = fresh.valid
        /\ output' = raw
        /\ decoded' = extracted
        /\ result' = returned
        /\ http' = http_response(returned)
        /\ UNCHANGED << pc, action, lsblk, example, formatted, tokenizer,
                        max_length, compiled,
                    trainer_vars, tool_vars >>

do_POST == do_POST_not_found \/ do_POST_bad_body \/ do_POST_query

NextServer == DiskChange \/ do_POST

SpecServer == InitServer /\ [][NextServer]_vars

(* --- the example compiler: prepare_dataset on one record --- *)

InitCompile ==
    /\ IdleTools({})
    /\ pc = "format_call"
    /\ example \in Examples
    /\ tokenizer \in {ensure_padding_token(t) : t \in Tokenizers}
    /\ max_length \in MaxLengths
    /\ formatted = Idle /\ compiled = Idle /\ result = Idle
    /\ InitServerFields /\ IdleDecoder /\ IdleVerifier /\ IdleServer
    /\ IdleTrainer

\* line 228
FormatExample ==
    /\ pc = "format_call"
    /\ formatted' = format_example_for_training(example, tokenizer)
    /\ pc' = "formatted"
    /\ UNCHANGED << output, result, action, _valid_disks, _cached_facts, lsblk,
                    decoded, http, example, tokenizer, max_length, compiled,
                    trainer_vars, tool_vars >>

\* lines 269-273
TokenizeWithMasking ==
    /\ pc = "formatted"
    /\ compiled' = tokenize_with_masking(formatted, tokenizer, max_length)
    /\ pc' = "tokenized"
    /\ UNCHANGED << output, result, action, _valid_disks, _cached_facts, lsblk,
                    decoded, http, example, formatted, tokenizer, max_length,
                    trainer_vars, tool_vars >>

\* the synthesized assistant text handed to the server's decoder
DecodeTarget ==
    /\ pc = "formatted"
    /\ output' = assistant_message(example).content
    /\ result' = _extract_response(output')
    /\ pc' = "target_decoded"
    /\ UNCHANGED << action, _valid_disks, _cached_facts, lsblk, decoded, http,
                    example, formatted, tokenizer, max_length, compiled,
                    trainer_vars, tool_vars >>

\* the synthesized assistant text handed to the evaluator's extractor
EvaluateTarget ==
    /\ pc = "formatted"
    /\ output' = assistant_message(example).content
    /\ result' = evaluator_extract(output')
    /\ pc' = "target_evaluated"
    /\ UNCHANGED << action, _valid_disks, _cached_facts, lsblk, decoded, http,
                    example, formatted, tokenizer, max_length, compiled,
                    trainer_vars, tool_vars >>

\* the synthesized assistant text handed to test_model's parse_response
ParseTarget ==
    /\ pc = "formatted"
    /\ output' = assistant_message(example).content
    /\ result' = parse_response(output')
    /\ pc' = "target_parsed"
    /\ UNCHANGED << action, _valid_disks, _cached_facts, lsblk, decoded, http,
                    example, formatted, tokenizer, max_length, compiled,
                    trainer_vars, tool_vars >>

NextCompile ==
    \/ FormatExample \/ TokenizeWithMasking \/ DecodeTarget
    \/ EvaluateTarget \/ ParseTarget

SpecCompile == InitCompile /\ [][NextCompile]_vars

(* --- python/train_lora.py: main, which may be run again on the same --- *)
(* --- data                                                            --- *)

InitTrain ==
    /\ IdleTools({})
    /\ pc = "main"
    /\ examples \in ExampleLists
    /\ tokenizer \in {ensure_padding_token(t) : t \in GenericTokenizers}
    /\ max_length = 40
    /\ args \in [eval_split : EvalSplits]
    /\ formatted = Idle /\ stdout = Idle /\ dataset = Idle
    /\ train_dataset = Idle /\ eval_dataset = Idle /\ training_args = Idle
    /\ previous = Idle
    /\ example = Idle /\ compiled = Idle /\ result = Idle
    /\ InitServerFields /\ IdleDecoder /\ IdleVerifier /\ IdleServer

\* lines 265-284: no examples is an exit, else prepare_dataset
PrepareDataset ==
    /\ pc = "main"
    /\ IF examples = << >>
       THEN /\ pc' = "exited"
            /\ UNCHANGED << formatted, stdout, dataset >>
       ELSE \E prepared \in {generic_prepare_dataset(examples, tokenizer, max_length)} :
                /\ formatted' = prepared.formatted
                /\ stdout' = prepared.stdout
                /\ dataset' = prepared.tokenized
                /\ pc' = "prepared"
    /\ UNCHANGED << output, result, action, _valid_disks, _cached_facts, lsblk,
                    decoded, http, example, tokenizer, max_length, compiled,
                    examples, args, train_dataset, eval_dataset, training_args,
                    previous, tool_vars >>

\* lines 286-294
SplitTrainEval ==
    /\ pc = "prepared"
    /\ IF args.eval_split > 0
       THEN \E split \in train_test_split(Len(dataset), args.eval_split, seed) :
                IF Raised(split)
                THEN /\ pc' = "raised"
                     /\ UNCHANGED << train_dataset, eval_dataset >>
                ELSE /\ train_dataset' = split.train
                     /\ eval_dataset' = split.test
                     /\ pc' = "split"
       ELSE /\ train_dataset' = Rows([i \in 1..Len(dataset) |-> i])
            /\ eval_dataset' = None
            /\ pc' = "split"
    /\ UNCHANGED << output, result, action, _valid_disks, _cached_facts, lsblk,
                    decoded, http, example, formatted, tokenizer, max_length,
                    compiled, examples, args, stdout, dataset, training_args,
                    previous, tool_vars >>

\* lines 366-390
SetUpTraining ==
    /\ pc = "split"
    /\ training_args' = training_arguments(eval_dataset)
    /\ pc' = "set_up"
    /\ UNCHANGED << output, result, action, _valid_disks, _cached_facts, lsblk,
                    decoded, http, example, formatted, tokenizer, max_length,
                    compiled, examples, args, stdout, dataset, train_dataset,
                    eval_dataset, previous, tool_vars >>

\* lines 395-410: Trainer.train; what the library does with no row to train
\* on is not this program's to decide
Train ==
    /\ pc = "set_up"
    /\ \/ pc' = "trained"
       \/ train_dataset._indices = << >> /\ pc' = "raised"
    /\ UNCHANGED << output, result, action, _valid_disks, _cached_facts, lsblk,
                    decoded, http, example, formatted, tokenizer, max_length,
                    compiled, trainer_vars, tool_vars >>

\* the script is started again with the same command line on the same data
MainAgain ==
    /\ pc \in {"exited", "raised", "trained"}
    /\ previous' = [dataset |-> dataset, train_dataset |-> train_dataset,
                    eval_dataset |-> eval_dataset]
    /\ pc' = "main"
    /\ formatted' = Idle /\ stdout' = Idle /\ dataset' = Idle
    /\ train_dataset' = Idle /\ eval_dataset' = Idle /\ training_args' = Idle
    /\ UNCHANGED << output, result, action, _valid_disks, _cached_facts, lsblk,
                    decoded, http, example, tokenizer, max_length, compiled,
                    examples, args, tool_vars >>

NextTrain ==
    PrepareDataset \/ SplitTrainEval \/ SetUpTraining \/ Train \/ MainAgain

SpecTrain == InitTrain /\ [][NextTrain]_vars

(* --- llm_server.py main: HTTPServer.serve_forever and the requests --- *)
(* --- that arrive while it runs                                       --- *)

MaxRequests == 2

\* a server that hands every connection to a thread of its own
can_accept_threading(handlers) == TRUE

\* lines 397-401: HTTPServer handles a connection inside serve_forever's
\* loop, so the next connection is accepted when no handler is running
can_accept(handlers) == DOMAIN handlers = {}

\* the handlers with the one of request id at position at
AtPosition(handlers, id, at) ==
    [r \in DOMAIN handlers \cup {id} |->
        IF r = id THEN [kind |-> serving.kinds[id], at |-> at]
        ELSE handlers[r]]

InitServe ==
    /\ IdleTools({"serving"})
    /\ IdleCore /\ IdleTrainer
    /\ serving = [kinds |-> << >>,        \* the requests sent so far
                  backlog |-> << >>,      \* connections not yet accepted
                  handlers |-> << >>,     \* the handlers that are running
                  refreshed_by |-> 0,     \* whose refresh set _valid_disks
                  behind |-> << >>,       \* who was served when each arrived
                  log |-> << >>]

\* a client connects and sends a request: a query, another path, or a body
\* that is not JSON
Connect ==
    /\ Len(serving.kinds) < MaxRequests
    /\ \E kind \in {"query", "not_found", "bad_body"} :
        serving' = [serving EXCEPT
            !.kinds = Append(@, kind),
            !.backlog = Append(@, Len(serving.kinds) + 1),
            !.behind = Append(@, DOMAIN serving.handlers)]
    /\ UNCHANGED << core_vars, trainer_vars, validation, heap, runner, typos,
                    sweep, sync, annotation >>

\* serve_forever takes the next connection and calls do_POST
Accept ==
    /\ serving.backlog # << >>
    /\ can_accept(serving.handlers)
    /\ LET id == Head(serving.backlog)
       IN  serving' = [serving EXCEPT
               !.backlog = Tail(@),
               !.handlers = AtPosition(@, id, "do_POST"),
               !.log = Append(@, [id |-> id, step |-> "accept",
                                  valid_of |-> serving.refreshed_by])]
    /\ UNCHANGED << core_vars, trainer_vars, validation, heap, runner, typos,
                    sweep, sync, annotation >>

\* lines 352-360: the path and the body are looked at
ReadRequest ==
    /\ \E id \in DOMAIN serving.handlers :
        /\ serving.handlers[id].at = "do_POST"
        /\ serving' = [serving EXCEPT
               !.handlers = AtPosition(@, id,
                   IF serving.kinds[id] = "query" THEN "refresh" ELSE "respond"),
               !.log = Append(@, [id |-> id, step |-> "read",
                                  valid_of |-> serving.refreshed_by])]
    /\ UNCHANGED << core_vars, trainer_vars, validation, heap, runner, typos,
                    sweep, sync, annotation >>

\* line 253: _refresh_system_facts sets the server's facts and valid set
RefreshFacts ==
    /\ \E id \in DOMAIN serving.handlers :
        /\ serving.handlers[id].at = "refresh"
        /\ serving' = [serving EXCEPT
               !.handlers = AtPosition(@, id, "generate"),
               !.refreshed_by = id,
               !.log = Append(@, [id |-> id, step |-> "refresh",
                                  valid_of |-> id])]
    /\ UNCHANGED << core_vars, trainer_vars, validation, heap, runner, typos,
                    sweep, sync, annotation >>

\* lines 256-280: the prompt is built and the model generates, or raises
Generate ==
    /\ \E id \in DOMAIN serving.handlers :
       \E next \in {"decode", "respond"} :
        /\ serving.handlers[id].at = "generate"
        /\ serving' = [serving EXCEPT
               !.handlers = AtPosition(@, id, next),
               !.log = Append(@, [id |-> id, step |-> "generate",
                                  valid_of |-> serving.refreshed_by])]
    /\ UNCHANGED << core_vars, trainer_vars, validation, heap, runner, typos,
                    sweep, sync, annotation >>

\* line 282: _extract_response returns, or raises
Decode ==
    /\ \E id \in DOMAIN serving.handlers :
       \E next \in {"verify", "respond"} :
        /\ serving.handlers[id].at = "decode"
        /\ serving' = [serving EXCEPT
               !.handlers = AtPosition(@, id, next),
               !.log = Append(@, [id |-> id, step |-> "decode",
                                  valid_of |-> serving.refreshed_by])]
    /\ UNCHANGED << core_vars, trainer_vars, validation, heap, runner, typos,
                    sweep, sync, annotation >>

\* line 285: _verify_response reads the server's valid set
Verify ==
    /\ \E id \in DOMAIN serving.handlers :
        /\ serving.handlers[id].at = "verify"
        /\ serving' = [serving EXCEPT
               !.handlers = AtPosition(@, id, "respond"),
               !.log = Append(@, [id |-> id, step |-> "verify",
                                  valid_of |-> serving.refreshed_by])]
    /\ UNCHANGED << core_vars, trainer_vars, validation, heap, runner, typos,
                    sweep, sync, annotation >>

\* lines 353, 366-375: the response is written and do_POST returns
Respond ==
    /\ \E id \in DOMAIN serving.handlers :
        /\ serving.handlers[id].at = "respond"
        /\ serving' = [serving EXCEPT
               !.handlers = [r \in DOMAIN @ \ {id} |-> @[r]],
               !.log = Append(@, [id |-> id, step |-> "respond",
                                  valid_of |-> serving.refreshed_by])]
    /\ UNCHANGED << core_vars, trainer_vars, validation, heap, runner, typos,
                    sweep, sync, annotation >>

NextServe ==
    \/ Connect \/ Accept \/ ReadRequest \/ RefreshFacts \/ Generate \/ Decode
    \/ Verify \/ Respond

SpecServe == InitServe /\ [][NextServe]_vars

(* --- python/generate_data.py validate_example and the installer's    --- *)
(* --- load_training_data, each on one record                           --- *)

\* one error string: its wording and the message it names (-1: the example)
Error(text, message) == [text |-> text, message |-> message]

\* generate_data.py lines 90-96: the errors of the messages from 0-based
\* index i on
RECURSIVE messages_errors(_, _)
messages_errors(msgs, i) ==
    IF i >= Len(msgs) THEN << >>
    ELSE LET msg == msgs[i + 1]
         IN  (IF "role" \notin DOMAIN msg
              THEN << Error("missing 'role'", i) >>
              ELSE IF msg.role \notin {"user", "assistant", "system"}
              THEN << Error("invalid role", i) >>
              ELSE << >>)
             \o (IF "content" \notin DOMAIN msg
                 THEN << Error("missing 'content'", i) >> ELSE << >>)
             \o messages_errors(msgs, i + 1)

\* generate_data.py lines 80-108
validate_example(ex) ==
    (IF "messages" \notin DOMAIN ex
     THEN << Error("missing 'messages' field", -1) >>
     ELSE IF ex.messages.t # "list"
     THEN << Error("'messages' must be a list", -1) >>
     ELSE IF Len(ex.messages.v) = 0
     THEN << Error("'messages' is empty", -1) >>
     ELSE messages_errors(ex.messages.v, 0))
    \o (IF "expected_response" \in DOMAIN ex
        THEN LET resp == ex.expected_response
             IN  IF "type" \notin DOMAIN resp
                 THEN << Error("expected_response missing 'type'", -1) >>
                 ELSE IF resp.type = "command" /\ "command" \notin DOMAIN resp
                 THEN << Error("command type but no 'command' field", -1) >>
                 ELSE IF resp.type = "text" /\ "response" \notin DOMAIN resp
                 THEN << Error("text type but no 'response' field", -1) >>
                 ELSE << >>
        ELSE << >>)

\* the records handed to validation: with and without messages (a string,
\* or a list of none, one or two messages) and expected_response (with and
\* without type, command and response)
ValidationExamples ==
    LET list(l) == [t |-> "list", v |-> l]
        message ==
            {[role |-> "user", content |-> << "hi" >>],
             [role |-> "tool", content |-> << "hi" >>],
             [role |-> "user"], [content |-> << "hi" >>], EmptyDict}
        messages ==
            {Str(<< "hi" >>), list(<< >>),
             list(<< [role |-> "user", content |-> << "hi" >>],
                     [role |-> "assistant"] >>)}
            \cup {list(<< m >>) : m \in message}
        expected ==
            UNION {[keys -> {<< "lsblk" >>}] :
                      keys \in SUBSET {"command", "response"}}
            \cup UNION {
                {[k \in keys \cup {"type"} |->
                     IF k = "type" THEN type ELSE << "lsblk" >>] :
                    keys \in SUBSET {"command", "response"}} :
                type \in {"command", "text", "other"}}
    IN  {EmptyDict}
        \cup {[messages |-> m] : m \in messages}
        \cup {[expected_response |-> e] : e \in expected}
        \cup {[messages |-> m, expected_response |-> e] :
                 m \in messages, e \in expected}

InitValidate ==
    /\ IdleTools({"validation"})
    /\ IdleCore /\ IdleTrainer
    /\ \E ex \in ValidationExamples :
        validation = [at |-> "read", example |-> ex, errors |-> None,
                      kept |-> None]

\* generate_data.py cmd_validate calls validate_example on the record
ValidateExample ==
    /\ validation.at = "read"
    /\ validation' = [validation EXCEPT
           !.at = "validated",
           !.errors = validate_example(validation.example)]
    /\ UNCHANGED << core_vars, trainer_vars, serving, heap, runner, typos,
                    sweep, sync, annotation >>

\* the installer's trainer reads the record from a JSONL file; lines 110-117:
\* the line is kept when it has both fields
LoadTrainingData ==
    /\ validation.at = "read"
    /\ validation' = [validation EXCEPT
           !.at = "loaded",
           !.kept = [kept |-> /\ "messages" \in DOMAIN validation.example
                             /\ "expected_response"
                                    \in DOMAIN validation.example]]
    /\ UNCHANGED << core_vars, trainer_vars, serving, heap, runner, typos,
                    sweep, sync, annotation >>

NextValidate == ValidateExample \/ LoadTrainingData

SpecValidate == InitValidate /\ [][NextValidate]_vars

(* --- the caller's list of messages: Python lists are objects, a      --- *)
(* --- callee holding a reference can change the caller's list.  heap   --- *)
(* --- is the sequence of the list objects, a reference is an index     --- *)

\* a list display, list(x), a slice or a + b: a new list object
new_list(h, items) == [heap |-> Append(h, items), ref |-> Len(h) + 1]

\* list.append and list.extend change the list object they are called on
list_extend(h, ref, items) == [h EXCEPT ![ref] = @ \o items]

\* installer train_lora.py lines 147-155 and 193: messages is a new list, the
\* turns of example["messages"] are appended to it as new dicts, and
\* messages + [assistant_message] is a new list again
format_example_heap(h, caller, ex) ==
    LET messages ==
            new_list(h, << [role |-> "system", content |-> system_prompt(ex)] >>)
        appended ==
            list_extend(messages.heap, messages.ref,
                [i \in 1..Len(h[caller]) |->
                    [role |-> h[caller][i].role,
                     content |-> h[caller][i].content]])
        messages_with_response ==
            new_list(appended,
                     appended[messages.ref] \o << assistant_message(ex) >>)
    IN  messages_with_response.heap

\* python/train_lora.py lines 88, 117-123 and 139: messages is a copy,
\* messages[:i] and messages + [assistant_message] are new lists
generic_format_example_heap(h, caller, ex, tok) ==
    LET messages == new_list(h, h[caller])
        copied == messages.heap[messages.ref]
    IN  IF "expected_response" \in DOMAIN ex
        THEN IF template_raises(tok, copied) THEN messages.heap
             ELSE new_list(messages.heap,
                           copied \o << target_of(ex).assistant_message >>).heap
        ELSE LET i == last_assistant(copied)
                 prompt == new_list(messages.heap, SubSeq(copied, 1, i - 1))
             IN  IF i = 0 THEN messages.heap
                 ELSE IF template_raises(tok, prompt.heap[prompt.ref])
                 THEN prompt.heap
                 ELSE new_list(prompt.heap,
                               prompt.heap[prompt.ref] \o << copied[i] >>).heap

\* llm_server.py lines 154-170: the system turn of a served request
server_system_turn(facts) ==
    [role |-> "system",
     content |-> << "You are the LevitateOS installation assistant." >>
                 \o (IF "disks" \in DOMAIN facts
                     THEN << "## Available Disks" >> ELSE << >>)]

\* a server that puts its system turn in front of the list it was given
generate_full_messages_in_place(h, caller, facts) ==
    [h EXCEPT ![caller] = << server_system_turn(facts) >> \o @]

\* llm_server.py lines 256-258: full_messages is a new list that starts
\* with the system turn and is extended by the caller's messages
generate_full_messages(h, caller, facts) ==
    LET full_messages == new_list(h, << server_system_turn(facts) >>)
    IN  list_extend(full_messages.heap, full_messages.ref, h[caller])

\* a caller holds an example; the list of its messages is object 1
InitFrame ==
    /\ IdleTools({"heap"})
    /\ pc = "caller"
    /\ example \in Examples \cup GenericExamples
    /\ heap = << example.messages >>
    /\ tokenizer \in
           {ensure_padding_token(t) :
               t \in {u \in Tokenizers \cup GenericTokenizers :
                         /\ u.pad_token = "None" /\ u.bos_token = "None"
                         /\ u.eos_token = "<|im_end|>"}}
    /\ max_length = 40
    /\ lsblk \in {a \in LsblkAnswers :
                     a.outcome = "ok" => Len(a.blockdevices) = 1}
    /\ formatted = Idle /\ compiled = Idle /\ result = Idle /\ http = Idle
    /\ InitServerFields /\ IdleDecoder /\ IdleVerifier /\ IdleTrainer

\* the installer's prepare_dataset calls format_example_for_training
CallFormatExample ==
    /\ pc = "caller"
    /\ example \in Examples
    /\ formatted' = format_example_for_training(example, tokenizer)
    /\ heap' = format_example_heap(heap, 1, example)
    /\ pc' = "formatted"
    /\ UNCHANGED << output, result, action, _valid_disks, _cached_facts, lsblk,
                    decoded, http, example, tokenizer, max_length, compiled,
                    trainer_vars, serving, validation, runner, typos, sweep,
                    sync, annotation >>

\* python/train_lora.py's prepare_dataset calls format_example_for_training
CallGenericFormatExample ==
    /\ pc = "caller"
    /\ formatted' = generic_format_example_for_training(example, tokenizer)
    /\ heap' = generic_format_example_heap(heap, 1, example, tokenizer)
    /\ pc' = "generic_formatted"
    /\ UNCHANGED << output, result, action, _valid_disks, _cached_facts, lsblk,
                    decoded, http, example, tokenizer, max_length, compiled,
                    trainer_vars, serving, validation, runner, typos, sweep,
                    sync, annotation >>

\* do_POST calls generate with the messages of the request
CallGenerate ==
    /\ pc = "caller"
    /\ \E raw \in ServerRawOutputs :
       \E fresh \in {refresh_system_facts(lsblk)} :
       \E extracted \in {_extract_response(raw)} :
       \E returned \in {verify_extracted(extracted, fresh.valid)} :
        /\ _cached_facts' = fresh.facts
        /\ _valid_disks' = fresh.valid
        /\ heap' = generate_full_messages(heap, 1, fresh.facts)
        /\ output' = raw
        /\ decoded' = extracted
        /\ result' = returned
        /\ http' = http_response(returned)
    /\ pc' = "generated"
    /\ UNCHANGED << action, lsblk, example, formatted, tokenizer, max_length,
                    compiled, trainer_vars, serving, validation, runner, typos,
                    sweep, sync, annotation >>

NextFrame == CallFormatExample \/ CallGenericFormatExample \/ CallGenerate

SpecFrame == InitFrame /\ [][NextFrame]_vars

(* --- tools/llm-runner/llm-runner.py: main from the generated text on --- *)

EXIT_SUCCESS == 0

EXIT_EXTRACTION_FAILED == 1

EXIT_EXECUTION_FAILED == 5

\* the pattern command:<escape>(.*?)<escape> anchored at index i
escape_pattern_at(s, i) ==
    LET j == IndexFrom(s, {"<escape>"}, i + 3)
    IN  IF /\ i + 2 <= Len(s)
           /\ SubSeq(s, i, i + 2) = << "command", ":", "<escape>" >>
           /\ j # 0
        THEN [found |-> TRUE, start |-> i, end |-> j,
              group |-> SubSeq(s, i + 3, j - 1)]
        ELSE NoMatch

\* lines 256-262: the phrases of a refusal
RefusalPhrases ==
    {"I'm sorry", "I am sorry", "I cannot", "I can't", "could you please",
     "would you like"}

\* lines 232-267: the pair (command, error_reason); lines 246-247 are
\* re.search(pattern2, output, re.DOTALL), the leftmost match
extract_function_call(out) ==
    LET match1 == command_pattern_search(out)
        hits == {i \in 1..Len(out) : escape_pattern_at(out, i).found}
        match2 ==
            IF hits = {} THEN NoMatch
            ELSE escape_pattern_at(out,
                                   CHOOSE i \in hits : \A j \in hits : i <= j)
    IN  IF match1.found
        THEN [command |-> Str(strip(match1.group)), error_reason |-> None]
        ELSE IF match2.found
        THEN [command |-> Str(strip(match2.group)), error_reason |-> None]
        ELSE IF \E i \in DOMAIN out : out[i] = "<start_function_call>"
        THEN [command |-> None,
              error_reason |-> Str(<< "Found function call marker but could not parse command" >>)]
        ELSE IF \E i \in DOMAIN out : out[i] \in RefusalPhrases
        THEN [command |-> None,
              error_reason |-> Str(<< "Model gave conversational response instead of function call" >>)]
        ELSE [command |-> None,
              error_reason |-> Str(<< "No function call pattern found in output" >>)]

\* str.lower on what the user typed
lower(response) ==
    CASE response = "Y" -> "y"
      [] response = "N" -> "n"
      [] response = "YES" -> "yes"
      [] OTHER -> response

\* a prompt that takes everything but a refusal for a yes
confirmed_unless_refused(response) == lower(response) # "n"

\* line 527: the answer that lets the command run
confirmed(response) == lower(response) = "y"

\* lines 350-352, 374-388: --format, --execute, --dry-run and --confirm;
\* line 494: what the model generated for the prompt
InitRunner ==
    /\ IdleTools({"runner"})
    /\ IdleCore /\ IdleTrainer
    /\ \E a \in [format : {"plain", "json", "raw"}, execute : BOOLEAN,
                 dry_run : BOOLEAN, confirm : BOOLEAN],
          text \in
              {CallPrefix \o << "lsblk", "<escape>", "}" >>,
               CallPrefix \o << " ", "dd", " ", "/dev/", "sda", "\n",
                                "<escape>", "}" >>,
               CallPrefix \o << " ", "<escape>", "}" >>,
               << "command", ":", "<escape>", "lsblk", "<escape>" >>,
               << "<start_function_call>", "call", ":", "run_shell_command" >>,
               << "I cannot", " ", "hi" >>,
               << "hi" >>} :
        runner = [at |-> "generated", args |-> a, output_text |-> text,
                  command |-> None, response |-> None,
                  ran |-> << >>,         \* the commands given to the shell
                  exit |-> None]

\* lines 503-513: the command is extracted and printed, or the process ends
ExtractCommand ==
    /\ runner.at = "generated"
    /\ LET extracted == extract_function_call(runner.output_text)
       IN  IF extracted.command = None \/ extracted.command.v = << >>
           THEN runner' = [runner EXCEPT
                    !.at = "exited", !.exit = [code |-> EXIT_EXTRACTION_FAILED]]
           ELSE runner' = [runner EXCEPT
                    !.at = "extracted", !.command = extracted.command]
    /\ UNCHANGED << core_vars, trainer_vars, serving, validation, heap, typos,
                    sweep, sync, annotation >>

\* lines 516-525 and 556-557: what the arguments ask for
HandleExecution ==
    /\ runner.at = "extracted"
    /\ IF ~runner.args.execute \/ runner.args.dry_run
       THEN runner' = [runner EXCEPT
                !.at = "exited", !.exit = [code |-> EXIT_SUCCESS]]
       ELSE IF runner.args.confirm
       THEN IF runner.args.format = "raw"
            THEN runner' = [runner EXCEPT
                     !.at = "exited", !.exit = [code |-> EXIT_SUCCESS]]
            ELSE runner' = [runner EXCEPT !.at = "confirming"]
       ELSE runner' = [runner EXCEPT !.at = "executing"]
    /\ UNCHANGED << core_vars, trainer_vars, serving, validation, heap, typos,
                    sweep, sync, annotation >>

\* lines 526-536: the answer to "Execute? [y/N]"; input() comes to a line,
\* end of input, or an interrupt
Confirm ==
    /\ runner.at = "confirming"
    /\ \E response \in {"y", "Y", "n", "N", "", "yes", "YES", "EOFError",
                        "KeyboardInterrupt"} :
        IF response \in {"EOFError", "KeyboardInterrupt"}
        THEN runner' = [runner EXCEPT
                 !.at = "exited", !.response = [raised |-> response],
                 !.exit = [code |-> EXIT_SUCCESS]]
        ELSE IF ~confirmed(response)
        THEN runner' = [runner EXCEPT
                 !.at = "exited", !.response = Str(response),
                 !.exit = [code |-> EXIT_SUCCESS]]
        ELSE runner' = [runner EXCEPT
                 !.at = "executing", !.response = Str(response)]
    /\ UNCHANGED << core_vars, trainer_vars, serving, validation, heap, typos,
                    sweep, sync, annotation >>

\* lines 539-557: subprocess.run(command, shell=True) and the exit code
Execute ==
    /\ runner.at = "executing"
    /\ \E returncode \in {0, 1} :
        runner' = [runner EXCEPT
            !.at = "exited",
            !.ran = Append(@, runner.command.v),
            !.exit = [code |-> IF returncode # 0 THEN EXIT_EXECUTION_FAILED
                               ELSE EXIT_SUCCESS]]
    /\ UNCHANGED << core_vars, trainer_vars, serving, validation, heap, typos,
                    sweep, sync, annotation >>

NextRunner == ExtractCommand \/ HandleExecution \/ Confirm \/ Execute

SpecRunner == InitRunner /\ [][NextRunner]_vars

(* --- augment_data.py add_typos.  A text is a sequence of characters; --- *)
(* --- prob and random.random() are in hundredths                       --- *)

MaxTextLen == 4

\* lines 685-713; draw holds what random.random, random.randint and the two
\* random.choice calls return.  lower is str.lower on one character, nearby
\* the entries of lines 700-709 for the letters of the texts
add_typos(text, prob, draw) ==
    IF draw.random > prob THEN Str(text)
    ELSE IF Len(text) = 0 THEN Raise("ValueError")   \* randint(0, -1)
    ELSE LET idx == draw.idx + 1
             char_lower(c) == IF c = "B" THEN "b" ELSE c
             nearby ==
                 [c \in {"a", "b"} |->
                     IF c = "a" THEN << "s", "q" >> ELSE << "v", "n" >>]
         IN  CASE draw.typo_type = "swap" /\ idx < Len(text) ->
                    Str([i \in 1..Len(text) |->
                            IF i = idx THEN text[idx + 1]
                            ELSE IF i = idx + 1 THEN text[idx]
                            ELSE text[i]])
               [] draw.typo_type = "delete" /\ Len(text) > 3 ->
                    Str(SubSeq(text, 1, idx - 1)
                            \o SubSeq(text, idx + 1, Len(text)))
               [] draw.typo_type = "double" ->
                    Str(SubSeq(text, 1, idx - 1) \o << text[idx] >>
                            \o SubSeq(text, idx, Len(text)))
               [] draw.typo_type = "replace"
                  /\ char_lower(text[idx]) \in DOMAIN nearby ->
                    Str([text EXCEPT
                            ![idx] = nearby[char_lower(text[idx])][draw.choice]])
               [] OTHER -> Str(text)

InitTypos ==
    /\ IdleTools({"typos"})
    /\ IdleCore /\ IdleTrainer
    /\ \E text \in UNION {[1..n -> {"a", "B", " "}] : n \in 0..MaxTextLen},
          prob \in {0, 10, 100} :
        typos = [at |-> "call", text |-> text, prob |-> prob, draw |-> None,
                 result |-> None]

\* one call; random.random() is in [0, 1): 0.0, 0.1 or 0.99, and
\* random.randint(0, len(chars) - 1) an index of the text
AddTypos ==
    /\ typos.at = "call"
    /\ \E draw \in [random : {0, 10, 99},
                    idx : IF Len(typos.text) = 0 THEN {0}
                          ELSE 0..(Len(typos.text) - 1),
                    typo_type : {"swap", "delete", "double", "replace"},
                    choice : {1, 2}] :
        typos' = [typos EXCEPT
            !.at = "returned", !.draw = draw,
            !.result = add_typos(typos.text, typos.prob, draw)]
    /\ UNCHANGED << core_vars, trainer_vars, serving, validation, heap, runner,
                    sweep, sync, annotation >>

NextTypos == AddTypos

SpecTypos == InitTypos /\ [][NextTypos]_vars

(* --- train_sweep.py: the loop of main over the configurations.      --- *)
(* --- Accuracies and losses are in hundredths                         --- *)

MaxConfigs == 2

\* lines 61-66: the ranks of the preset rank_focus, one configuration each
generate_configs(n) ==
    SubSeq(<< [rank |-> 4], [rank |-> 8], [rank |-> 16], [rank |-> 32],
              [rank |-> 64], [rank |-> 128] >>, 1, n)

\* lines 97-180: the result dict of run_training
run_training(config, outcome) ==
    LET base == [config |-> config.rank, rank |-> config.rank,
                   success |-> FALSE, eval_loss |-> None]
    IN  CASE outcome = "timeout" -> Put(base, "error", << "Timeout (2h)" >>)
          [] outcome = "exception" -> Put(base, "error", << "OSError" >>)
          [] outcome = "nonzero" -> base
          [] outcome = "no eval_loss" -> [base EXCEPT !.success = TRUE]
          [] OTHER -> [base EXCEPT !.success = TRUE, !.eval_loss = [v |-> 42]]

\* lines 183-203: the first record of eval_results.json, or an error
run_evaluation(outcome) ==
    CASE outcome = "results written" -> [command_accuracy |-> 50, score |-> 50]
      [] outcome = "exception" -> [error |-> << "TimeoutExpired" >>]
      [] OTHER -> [error |-> << "Evaluation failed" >>]

\* a loop that keeps the results of the successful trainings only
record_result_if_successful(results, res) ==
    IF res.success THEN Append(results, res) ELSE results

\* line 281: results.append(result)
record_result(results, res) == Append(results, res)

InitSweep ==
    /\ IdleTools({"sweep"})
    /\ IdleCore /\ IdleTrainer
    /\ \E n \in 1..MaxConfigs, file \in {None, [results |-> << >>]} :
        sweep = [at |-> "train", configs |-> generate_configs(n), i |-> 1,
                 result |-> None, results |-> << >>,
                 results_file |-> file,   \* sweep_results.json, if there
                 processes |-> << >>,     \* the processes started, in order
                 outcomes |-> << >>]      \* what each configuration came to

\* line 265: run_training for the i-th configuration.  The training process
\* ends with 0 and logs an eval_loss, ends with 0 and logs none, ends with
\* another code, runs into the timeout, or cannot be started
RunTraining ==
    /\ sweep.at = "train"
    /\ \E outcome \in {"logged eval_loss", "no eval_loss", "nonzero",
                       "timeout", "exception"} :
        LET trained == run_training(sweep.configs[sweep.i], outcome)
        IN  sweep' = [sweep EXCEPT
                !.result = trained,
                !.processes = Append(@, << sweep.i, "train_lora.py" >>),
                !.outcomes = Append(@, [training |-> outcome]),
                !.at = IF trained.success THEN "evaluate" ELSE "record"]
    /\ UNCHANGED << core_vars, trainer_vars, serving, validation, heap, runner,
                    typos, sync, annotation >>

\* lines 267-277: run_evaluation after a training that succeeded, and what
\* main takes over from it
RunEvaluation ==
    /\ sweep.at = "evaluate"
    /\ \E outcome \in {"results written", "no results", "exception"} :
        LET eval_result == run_evaluation(outcome)
        IN  sweep' = [sweep EXCEPT
                !.result =
                    IF "error" \notin DOMAIN eval_result
                    THEN Put(Put(@, "command_accuracy",
                                 Get(eval_result, "command_accuracy", 0)),
                             "score", Get(eval_result, "score", 0))
                    ELSE Put(@, "eval_error", eval_result.error),
                !.processes = Append(@, << sweep.i, "evaluate_lora.py" >>),
                !.outcomes[sweep.i] = Put(@, "evaluation", outcome),
                !.at = "record"]
    /\ UNCHANGED << core_vars, trainer_vars, serving, validation, heap, runner,
                    typos, sync, annotation >>

\* lines 281-291: the result is appended, the file rewritten, and the loop
\* goes on to the next configuration
SaveResults ==
    /\ sweep.at = "record"
    /\ LET results == record_result(sweep.results, sweep.result)
       IN  sweep' = [sweep EXCEPT
               !.results = results,
               !.results_file = [results |-> results],
               !.result = None,
               !.i = @ + 1,
               !.at = IF sweep.i < Len(sweep.configs) THEN "train"
                      ELSE "summary"]
    /\ UNCHANGED << core_vars, trainer_vars, serving, validation, heap, runner,
                    typos, sync, annotation >>

NextSweep == RunTraining \/ RunEvaluation \/ SaveResults

SpecSweep == InitSweep /\ [][NextSweep]_vars

(* --- annotate_thinking.py run_sync, run again after it ended or was --- *)
(* --- stopped                                                        --- *)

MaxSyncExamples == 2

MaxRuns == 2

\* line 174: the checkpoint is saved every SaveEvery processed examples
SaveEvery == 100

\* lines 96-99: the checkpoint file's content, or the empty checkpoint
load_checkpoint(file) ==
    IF file # None THEN file
    ELSE [processed |-> << >>, success |-> 0, errors |-> 0]

\* lines 102-103
save_checkpoint(data) == data

InitSync ==
    /\ IdleTools({"sync"})
    /\ IdleCore /\ IdleTrainer
    /\ \E total \in 1..MaxSyncExamples :
        sync = [at |-> "main", total |-> total, runs |-> 0,
                checkpoint_file |-> None,  \* the checkpoint file, if there
                output_file |-> << >>,     \* the lines of the output file
                checkpoint |-> None, processed_set |-> {}, idx |-> 0]

\* lines 125-136: the checkpoint is loaded and the output opened to append
RunSync ==
    /\ sync.at \in {"main", "stopped", "returned"}
    /\ sync.runs < MaxRuns
    /\ LET loaded == load_checkpoint(sync.checkpoint_file)
       IN  sync' = [sync EXCEPT
               !.at = "loop", !.runs = @ + 1, !.idx = 0,
               !.checkpoint = loaded,
               !.processed_set = {loaded.processed[k] :
                                     k \in DOMAIN loaded.processed}]
    /\ UNCHANGED << core_vars, trainer_vars, serving, validation, heap, runner,
                    typos, sweep, annotation >>

\* lines 137-175: one turn of the loop; client.messages.create returns or
\* raises, and lines 161-172 count the example in the checkpoint
NextExample ==
    /\ sync.at = "loop" /\ sync.idx < sync.total
    /\ IF sync.idx \in sync.processed_set
       THEN sync' = [sync EXCEPT !.idx = @ + 1]
       ELSE \E outcome \in {"ok", "RateLimitError", "Exception"} :
            LET checkpoint ==
                    CASE outcome = "ok" ->
                            [sync.checkpoint EXCEPT
                                !.success = @ + 1,
                                !.processed = Append(@, sync.idx)]
                      [] outcome = "Exception" ->
                            [sync.checkpoint EXCEPT
                                !.errors = @ + 1,
                                !.processed = Append(@, sync.idx)]
                      [] OTHER -> sync.checkpoint
            IN  sync' = [sync EXCEPT
                    !.idx = @ + 1,
                    !.checkpoint = checkpoint,
                    !.output_file =
                        IF outcome = "ok"
                        THEN Append(@, [idx |-> sync.idx, run |-> sync.runs])
                        ELSE @,
                    !.checkpoint_file =
                        IF /\ outcome # "RateLimitError"
                           /\ Len(checkpoint.processed) % SaveEvery = 0
                        THEN save_checkpoint(checkpoint) ELSE @]
    /\ UNCHANGED << core_vars, trainer_vars, serving, validation, heap, runner,
                    typos, sweep, annotation >>

\* lines 177-178: the checkpoint is saved after the last example
EndOfExamples ==
    /\ sync.at = "loop" /\ sync.idx = sync.total
    /\ sync' = [sync EXCEPT
           !.at = "returned",
           !.checkpoint_file = save_checkpoint(sync.checkpoint)]
    /\ UNCHANGED << core_vars, trainer_vars, serving, validation, heap, runner,
                    typos, sweep, annotation >>

\* the process is interrupted or killed between two turns of the loop: what
\* it flushed to the output file stays, its checkpoint in memory is lost
Stopped ==
    /\ sync.at = "loop"
    /\ sync' = [sync EXCEPT
           !.at = "stopped", !.checkpoint = None, !.processed_set = {}]
    /\ UNCHANGED << core_vars, trainer_vars, serving, validation, heap, runner,
                    typos, sweep, annotation >>

NextSync == RunSync \/ NextExample \/ EndOfExamples \/ Stopped

SpecSync == InitSync /\ [][NextSync]_vars

(* --- python/generate_data.py cmd_annotate --- *)

MaxAnnotate == 2

\* lines 335-338: the copy of the record with the thinking in it
with_annotation(ex, thinking) ==
    [ex EXCEPT !.expected_response = Put(@, "thinking", thinking)]

\* lines 281-304: the arguments and the records of the input file: without
\* expected_response, with one that has no thinking, with one that has
InitAnnotate ==
    /\ IdleTools({"annotation"})
    /\ IdleCore /\ IdleTrainer
    /\ \E exs \in
              UNION {[1..n ->
                         {[messages |-> << UserTurn(<< "list disks" >>) >>],
                          [messages |-> << UserTurn(<< "list disks" >>) >>,
                           expected_response |->
                               [type |-> "command", command |-> << "lsblk" >>]],
                          [messages |-> << UserTurn(<< "hi" >>) >>,
                           expected_response |->
                               [type |-> "text", response |-> << "hi" >>,
                                thinking |-> << "hi" >>]]}] :
                        n \in 0..MaxAnnotate},
          limit \in {0, 1}, dry_run \in BOOLEAN :
        annotation = [at |-> "loaded", examples |-> exs,
                      args |-> [limit |-> limit, dry_run |-> dry_run],
                      to_annotate |-> << >>, idx |-> 0, annotated |-> << >>,
                      success |-> 0, errors |-> 0,
                      output |-> None]   \* the output file, once it is saved

\* lines 306-326: the records to annotate, at most limit of them when limit
\* is not 0
SelectExamples ==
    /\ annotation.at = "loaded"
    /\ LET to_annotate ==
               SelectSeq(annotation.examples, LAMBDA ex :
                   /\ "expected_response" \in DOMAIN ex
                   /\ "thinking" \notin DOMAIN ex.expected_response)
           limit == annotation.args.limit
       IN  annotation' = [annotation EXCEPT
               !.to_annotate =
                   IF limit # 0
                   THEN SubSeq(to_annotate, 1, Min(limit, Len(to_annotate)))
                   ELSE to_annotate,
               !.at = IF annotation.args.dry_run THEN "returned" ELSE "loop"]
    /\ UNCHANGED << core_vars, trainer_vars, serving, validation, heap, runner,
                    typos, sweep, sync >>

\* lines 328-351: one turn of the loop; generate_thinking returns or raises
AnnotateExample ==
    /\ annotation.at = "loop"
    /\ annotation.idx < Len(annotation.to_annotate)
    /\ \E outcome \in {"ok", "RateLimitError", "Exception"} :
        LET ex == annotation.to_annotate[annotation.idx + 1]
        IN
        annotation' = [annotation EXCEPT
            !.idx = @ + 1,
            !.annotated =
                CASE outcome = "ok" ->
                        Append(@, with_annotation(ex, << "think" >>))
                  [] outcome = "Exception" -> Append(@, ex)
                  [] OTHER -> @,
            !.success = IF outcome = "ok" THEN @ + 1 ELSE @,
            !.errors = IF outcome = "Exception" THEN @ + 1 ELSE @]
    /\ UNCHANGED << core_vars, trainer_vars, serving, validation, heap, runner,
                    typos, sweep, sync >>

\* lines 353-355: save_jsonl(annotated, output_path)
SaveAnnotated ==
    /\ annotation.at = "loop"
    /\ annotation.idx = Len(annotation.to_annotate)
    /\ annotation' = [annotation EXCEPT
           !.output = [lines |-> annotation.annotated],
           !.at = "returned"]
    /\ UNCHANGED << core_vars, trainer_vars, serving, validation, heap, runner,
                    typos, sweep, sync >>

NextAnnotate == SelectExamples \/ AnnotateExample \/ SaveAnnotated

SpecAnnotate == InitAnnotate /\ [][NextAnnotate]_vars

-----------------------------------------------------------------------------
(* Properties *)

\* c[i..j] is "/dev/" followed by a whole run of word characters
DevicePathAt(c, i, j) ==
    /\ c[i] = "/dev/"
    /\ i < j
    /\ \A k \in (i + 1)..j : c[k] \in WordSyms
    /\ j = Len(c) \/ c[j + 1] \notin WordSyms

\* the device paths a command string mentions
DevicePathsIn(c) ==
    {SubSeq(c, x[1], x[2]) :
        x \in {y \in (1..Len(c)) \X (1..Len(c)) : DevicePathAt(c, y[1], y[2])}}

KnownPseudoDevices ==
    {<< "/dev/", "null" >>, << "/dev/", "zero" >>,
     << "/dev/", "urandom" >>, << "/dev/", "random" >>}

IsCommand(r) == "type" \in DOMAIN r /\ r.type = "command"

IsText(r) == "type" \in DOMAIN r /\ r.type = "text"

Verified == pc = "verify_return"

\* the device paths of the command passed in that are neither pseudo-devices
\* nor in the valid set
Unverified == DevicePathsIn(action.command) \ (KnownPseudoDevices \cup _valid_disks)

\* C1: whenever the command passed to _verify_response mentions at least one
\* device path that is neither a pseudo-device nor in the valid set, the
\* verifier returns a text response that has no "command" field, whatever the
\* other paths of the command are.
C1_UnknownDeviceDowngrades ==
    (Verified /\ IsCommand(action) /\ Unverified # {})
        => (IsText(result) /\ "command" \notin DOMAIN result)

\* a downgraded command whose first device path is valid and a later one is not
C1_Witness ==
    /\ Verified /\ IsCommand(action)
    /\ findall_dev(action.command) # << >>
    /\ Head(findall_dev(action.command)) \in _valid_disks
    /\ Unverified # {}
    /\ IsText(result) /\ "command" \notin DOMAIN result

\* C6: a command all of whose device paths are among /dev/null, /dev/zero,
\* /dev/urandom and /dev/random comes back from _verify_response as the same
\* dict, for every valid set, the empty one included.
C6_PseudoDevicesPass ==
    (/\ Verified /\ IsCommand(action)
     /\ DevicePathsIn(action.command) # {}
     /\ DevicePathsIn(action.command) \subseteq KnownPseudoDevices)
        => result = action

\* /dev/urandom and /dev/zero pass against the empty valid set
C6_Witness ==
    /\ Verified /\ IsCommand(action)
    /\ _valid_disks = {}
    /\ DevicePathsIn(action.command) = {<< "/dev/", "urandom" >>, << "/dev/", "zero" >>}
    /\ result = action

\* C7: _verify_response returns the dict it was given, with the same type,
\* command or text and thinking, when the dict is a text response, whatever
\* device paths its text mentions, or a command every device path of which
\* is in the valid set or is a pseudo-device.
C7_VerifiedUnchanged ==
    (/\ Verified
     /\ \/ IsText(action)
        \/ IsCommand(action) /\ Unverified = {})
        => result = action

\* a command with thinking that names a valid partition comes back as it was
C7_Witness ==
    /\ Verified /\ IsCommand(action)
    /\ "thinking" \in DOMAIN action
    /\ << "/dev/", "sda", "1" >> \in DevicePathsIn(action.command)
    /\ << "/dev/", "sda", "1" >> \in _valid_disks
    /\ result = action

Responded == "status" \in DOMAIN http /\ http.status = 200

\* the verifier replaced the decoded command of this request by a text
Downgraded == IsCommand(decoded) /\ IsText(http.body)

Extracted == pc \in {"extract_return", "extract_raised"}

DecodeError(e) == [success |-> FALSE, error |-> e]

IsDecodeError(r, e) == "error" \in DOMAIN r /\ r.error = e

DelimiterSyms == Tags \cup {"<", ">", "{", "}"}

\* C2: decoding the assistant text synthesized for a non-empty command c
\* without delimiter characters gives a command action whose command is c
\* trimmed; the record expecting "lsblk" decodes to the command "lsblk".
C2_RoundTrip ==
    (/\ pc = "target_decoded"
     /\ example.expected_response.type = "command"
     /\ strip(example.expected_response.command) # << >>
     /\ \A i \in DOMAIN example.expected_response.command :
            example.expected_response.command[i] \notin DelimiterSyms)
        => (/\ IsCommand(result)
            /\ result.command = strip(example.expected_response.command))

\* the tool-call regions of a text: an opening tag and the first closing tag
\* after it
ToolCallRegions(out) ==
    {x \in (1..Len(out)) \X (1..Len(out)) :
        /\ x[1] < x[2]
        /\ out[x[1]] = "<tool_call>"
        /\ out[x[2]] = "</tool_call>"
        /\ \A k \in (x[1] + 1)..(x[2] - 1) : out[k] # "</tool_call>"}

\* the text is JSON for an object that has a name and arguments
IsToolCallPayload(payload) ==
    LET r == json_loads(payload)
    IN  /\ r.ok
        /\ r.val.t = "dict"
        /\ << "name" >> \in DOMAIN r.val.v
        /\ << "arguments" >> \in DOMAIN r.val.v

\* C3: when the raw output holds a delimited tool-call region whose payload
\* does not parse as the {name, arguments} structure, the decoder returns
\* the error MalformedToolCall and no success result.
C3_MalformedToolCall ==
    (/\ Extracted
     /\ \E x \in ToolCallRegions(output) :
            ~IsToolCallPayload(SubSeq(output, x[1] + 1, x[2] - 1)))
        => IsDecodeError(result, "MalformedToolCall")

\* C4: a raw output that is empty, whitespace only, or empty once the
\* reasoning block and all tags are stripped decodes to the error
\* EmptyResponse, never to a successful text response with empty text.
C4_EmptyResponse ==
    (Extracted /\ strip(sub_tags(sub_think(output))) = << >>)
        => (/\ IsDecodeError(result, "EmptyResponse")
            /\ ~(IsText(result) /\ result.response = << >>))

\* the payload has name "run_shell_command" and a non-empty string as
\* arguments.command
IsShellCommandPayload(payload) ==
    LET r == json_loads(payload)
    IN  /\ IsToolCallPayload(payload)
        /\ r.val.v[<< "name" >>] = Str(<< "run_shell_command" >>)
        /\ r.val.v[<< "arguments" >>].t = "dict"
        /\ << "command" >> \in DOMAIN r.val.v[<< "arguments" >>].v
        /\ r.val.v[<< "arguments" >>].v[<< "command" >>].t = "str"
        /\ r.val.v[<< "arguments" >>].v[<< "command" >>].v # << >>

\* C5: the decoder returns a command only for a tool-call payload whose name
\* is "run_shell_command" and whose arguments.command is a non-empty string,
\* and the command of every command result is non-empty and trimmed.
C5_CommandNonEmpty ==
    (Extracted /\ IsCommand(result))
        => (/\ result.command # << >>
            /\ result.command = strip(result.command)
            /\ \E x \in ToolCallRegions(output) :
                   IsShellCommandPayload(SubSeq(output, x[1] + 1, x[2] - 1)))

\* C9: for every raw output, a payload with arguments of an unexpected type
\* included, the decoder returns a value and raises no exception.
C9_NeverRaises == pc # "extract_raised" /\ ~Raised(result)

\* the positions of a compiled example that hold text, not padding
RealPositions(c) == {p \in DOMAIN c.attention_mask : c.attention_mask[p] = 1}

\* the positions of a compiled example whose label is not the ignore value
LabelledPositions(c) == {p \in DOMAIN c.labels : c.labels[p] # IGNORE_INDEX}

\* C10: in a compiled example every position below promptLength has label
\* -100, and the positions with another label are exactly those from
\* promptLength to the start of the padding: one run, no padding in it.
C10_LabelRun ==
    pc = "tokenized" =>
        LET n == prompt_len(formatted, tokenizer, max_length)
        IN  /\ \A p \in DOMAIN compiled.labels :
                   p - 1 < n => compiled.labels[p] = IGNORE_INDEX
            /\ LabelledPositions(compiled)
                   = {p \in RealPositions(compiled) : p - 1 >= n}

\* the tokens at the head of a compiled example that belong to the prompt:
\* the special token the tokenizer puts first, then the prompt text's tokens
LeadingPromptTokens(c, f, tok) ==
    LET special == IF tok.bos_token # "None"
                      /\ c.input_ids # << >>
                      /\ c.input_ids[1] = token_id(tok.bos_token)
                   THEN 1 ELSE 0
    IN  Cardinality({p \in DOMAIN c.input_ids : p <= special + Len(f.prompt_text)})

\* C11: the prompt text and the full text are tokenized with the same
\* special-token setting, so prompt_len is the number of leading tokens of
\* the tokenized full text that belong to the prompt: no special token shifts
\* the mask boundary.
C11_MaskBoundary ==
    pc = "tokenized" =>
        prompt_len(formatted, tokenizer, max_length)
            = LeadingPromptTokens(compiled, formatted, tokenizer)

\* C12: input_ids, attention_mask and labels of every compiled example have
\* the same length, max_length, whether the full text was padded or truncated.
C12_LengthIsMaxLength ==
    pc = "tokenized" =>
        /\ Len(compiled.input_ids) = max_length
        /\ Len(compiled.attention_mask) = max_length
        /\ Len(compiled.labels) = max_length

\* a full text longer than max_length, behind a begin-of-sequence token, is
\* cut to max_length
C12_Witness ==
    /\ pc = "tokenized"
    /\ tokenizer.bos_token # "None"
    /\ Len(formatted.full_text) > max_length
    /\ Len(compiled.input_ids) = max_length
    /\ Len(compiled.labels) = max_length
    /\ \A p \in DOMAIN compiled.attention_mask : compiled.attention_mask[p] = 1

\* the first reasoning block of the text holds nothing or whitespace only
EmptyFirstBlock(out) ==
    \E i, j \in DOMAIN out :
        /\ i < j
        /\ out[i] = "<think>" /\ out[j] = "</think>"
        /\ \A k \in 1..(i - 1) : out[k] # "<think>"
        /\ \A k \in (i + 1)..(j - 1) : out[k] \in Whitespace

\* C13: in every result of _extract_response the thinking field is absent or
\* a string that is not empty; a reasoning block that is empty or whitespace
\* only is discarded, for command and for text results alike.
C13_ThinkingAbsentOrNonEmpty ==
    Extracted =>
        /\ "thinking" \in DOMAIN result =>
               \E k \in DOMAIN result.thinking : result.thinking[k] \notin Whitespace
        /\ EmptyFirstBlock(output) => "thinking" \notin DOMAIN result

\* a command decoded behind a whitespace-only reasoning block has no thinking
C13_Witness ==
    /\ Extracted /\ IsCommand(result)
    /\ EmptyFirstBlock(output)
    /\ "thinking" \notin DOMAIN result


\* the text holds the opening delimiter of a reasoning block
HasReasoningBlock(text) == \E i \in DOMAIN text : text[i] = "<think>"

\* the string is not empty once whitespace is stripped
NonBlank(str) == \E k \in DOMAIN str : str[k] \notin Whitespace

\* C14: the synthesized assistant target holds a reasoning block if and only
\* if expected.thinking is non-empty after whitespace is stripped; an empty
\* or whitespace-only thinking gives a target without a block, for command
\* and for text targets.
C14_ReasoningBlockIffThinking ==
    (/\ pc = "prepared"
     /\ Len(formatted) = Len(examples)
     /\ \A i \in DOMAIN examples : "expected_response" \in DOMAIN examples[i])
        => \A i \in DOMAIN examples :
               HasReasoningBlock(formatted[i].full_text)
                   <=> NonBlank(Get(examples[i].expected_response,
                                    "thinking", << >>))

\* C15: when the chat template raises for an example, for the prompt text or
\* for the full text, the example is dropped: no formatted record is made of
\* it by another rendering.
C15_TemplateFailureDrops ==
    (/\ pc \in {"formatted", "tokenized", "target_decoded"}
     /\ tokenizer.template # "renders")
        => formatted = None

NoExpected(ex) == "expected_response" \notin DOMAIN ex

HasAssistantTurn(ex) ==
    \E i \in DOMAIN ex.messages : ex.messages[i].role = "assistant"

\* the prompt and the full text of a record whose target is its last
\* assistant turn: the prompt is the turns before that turn
PredictLastAssistant(ex) ==
    LET i == CHOOSE k \in DOMAIN ex.messages :
                 /\ ex.messages[k].role = "assistant"
                 /\ \A j \in (k + 1)..Len(ex.messages) :
                        ex.messages[j].role # "assistant"
    IN  [full_text |-> apply_chat_template(SubSeq(ex.messages, 1, i), FALSE),
         prompt_text |-> apply_chat_template(SubSeq(ex.messages, 1, i - 1), TRUE)]

\* C16: a record with no expected response and no assistant turn has no
\* target and contributes no compiled example; a record with no expected
\* response and an assistant turn is compiled with its last assistant turn
\* as the target and exactly the turns before it as the prompt.
C16_NoTarget ==
    pc = "prepared" =>
        /\ Len(dataset) = Len(formatted)
        /\ Len(formatted) <=
               Cardinality({i \in DOMAIN examples :
                   ~NoExpected(examples[i]) \/ HasAssistantTurn(examples[i])})
        /\ (\A i \in DOMAIN examples : NoExpected(examples[i])) =>
               LET kept == SelectSeq(examples, HasAssistantTurn)
               IN  formatted = [i \in DOMAIN kept |-> PredictLastAssistant(kept[i])]

\* a record without target is left out and one with two assistant turns
\* behind it is compiled to predict the second
C16_Witness ==
    /\ pc = "prepared"
    /\ Len(examples) = 2
    /\ NoExpected(examples[1]) /\ ~HasAssistantTurn(examples[1])
    /\ NoExpected(examples[2]) /\ Len(examples[2].messages) = 4
    /\ Len(dataset) = 1
    /\ formatted[1].prompt_text
           = apply_chat_template(SubSeq(examples[2].messages, 1, 3), TRUE)

\* C17: with --eval-split 0 the evaluation set is absent, the whole dataset
\* is the training set, and the training arguments ask for no evaluation and
\* no best-model selection; the run does not fail for want of evaluation rows.
C17_NoEvaluationWithoutEvalSet ==
    (pc \in {"split", "set_up", "trained", "raised"} /\ args.eval_split = 0) =>
        /\ pc = "raised" => dataset = << >>
        /\ pc # "raised" =>
               /\ eval_dataset = None
               /\ train_dataset._indices = [i \in 1..Len(dataset) |-> i]
        /\ pc \in {"set_up", "trained"} =>
               /\ training_args.eval_strategy = "no"
               /\ training_args.load_best_model_at_end = FALSE
               /\ training_args.metric_for_best_model = "None"

\* training has run on a whole dataset of two rows without evaluation
C17_Witness ==
    /\ pc = "trained"
    /\ args.eval_split = 0
    /\ train_dataset._indices = << 1, 2 >>
    /\ eval_dataset = None
    /\ training_args.eval_strategy = "no"

QueryServed == decoded' # Idle /\ lsblk' = lsblk

EnumeratedDisks(answer) ==
    IF answer.outcome # "ok" THEN {}
    ELSE LET disks == {d \in {answer.blockdevices[i] :
                                  i \in DOMAIN answer.blockdevices} :
                           d.type = "disk"}
         IN  {<< "/dev/" >> \o d.name : d \in disks}
             \cup UNION {{<< "/dev/" >> \o d.children[j] : j \in DOMAIN d.children} :
                          d \in {x \in disks : "children" \in DOMAIN x}}

\* what verifying r against the set valid comes to
VerifiedAgainst(r, valid, out) ==
    IF IsCommand(r) /\ DevicePathsIn(r.command) \ (KnownPseudoDevices \cup valid) # {}
    THEN IsText(out) /\ "warning" \in DOMAIN out
    ELSE out = r

\* C20: in every request served by generate the valid set is gathered from
\* the disks as they are during that request, and the decoded command is
\* accepted or rejected against that set: after any changes of the disks, no
\* set of an earlier request is used.
C20_FreshValidSet ==
    [][QueryServed =>
          /\ _valid_disks' = EnumeratedDisks(lsblk)
          /\ VerifiedAgainst(decoded', EnumeratedDisks(lsblk), result')]_vars

\* a command accepted against the three device paths lsblk named in its request
C20_Witness ==
    /\ Responded /\ IsCommand(decoded)
    /\ lsblk.outcome = "ok"
    /\ _valid_disks = {<< "/dev/", "sda" >>, << "/dev/", "sda", "1" >>,
                       << "/dev/", "sdb" >>}
    /\ result = decoded

\* lsblk failed, timed out or named no block device
EnumerationFailed(answer) ==
    \/ answer.outcome \in {"nonzero", "exception"}
    \/ answer.outcome = "ok" /\ answer.blockdevices = << >>

\* C30: when the disk enumeration of a request fails, times out or reports
\* no block device, the valid set of the request is empty and a command that
\* mentions a device path other than the pseudo-devices comes back as a text
\* response, never as a command.
C30_FailsClosed ==
    (Verified /\ EnumerationFailed(lsblk)) =>
        /\ _valid_disks = {}
        /\ (IsCommand(action)
            /\ DevicePathsIn(action.command) \ KnownPseudoDevices # {})
               => (IsText(result) /\ "command" \notin DOMAIN result)

\* a command on /dev/sda is refused in a request during which lsblk raised
C30_Witness ==
    /\ Verified /\ IsCommand(action)
    /\ lsblk.outcome = "exception"
    /\ << "/dev/", "sda" >> \in DevicePathsIn(action.command)
    /\ IsText(result) /\ "command" \notin DOMAIN result

\* the steps request id has completed, as positions of the server's log
StepsOf(id) == {i \in DOMAIN serving.log : serving.log[i].id = id}

\* C21: at most one request is being handled at any time; the steps of one
\* request are consecutive in the server's log; a request that arrived while
\* others were being handled has all its steps after all of theirs; and the
\* verify step of a request reads the valid set its own refresh step wrote.
C21_OneInFlight ==
    /\ Cardinality(DOMAIN serving.handlers) <= 1
    /\ \A i, j, k \in DOMAIN serving.log :
           (i < j /\ j < k /\ serving.log[i].id = serving.log[k].id)
               => serving.log[j].id = serving.log[i].id
    /\ \A id \in DOMAIN serving.behind : \A other \in serving.behind[id] :
           \A i \in StepsOf(id) : \A j \in StepsOf(other) : j < i
    /\ \A i \in DOMAIN serving.log :
           serving.log[i].step = "verify"
               => serving.log[i].valid_of = serving.log[i].id

\* a query that arrived while another query was being handled has been
\* verified and answered
C21_Witness ==
    \E id \in DOMAIN serving.behind : \E other \in serving.behind[id] :
        /\ serving.kinds[id] = "query" /\ serving.kinds[other] = "query"
        /\ \E i \in StepsOf(other) : serving.log[i].step = "verify"
        /\ \E i \in StepsOf(id) : serving.log[i].step = "verify"
        /\ \E i \in StepsOf(id) : serving.log[i].step = "respond"

\* exactly one of command and response is present, and it is the field of
\* the record's type
ExactlyOneMatching(resp) ==
    /\ "type" \in DOMAIN resp
    /\ \/ /\ resp.type = "command"
          /\ "command" \in DOMAIN resp /\ "response" \notin DOMAIN resp
       \/ /\ resp.type = "text"
          /\ "response" \in DOMAIN resp /\ "command" \notin DOMAIN resp

\* C22: a record with an expected_response that validate_example reports no
\* error for, or that load_training_data keeps, has exactly one of command
\* and response, the one of its type.
C22_ExactlyOneField ==
    (/\ "expected_response" \in DOMAIN validation.example
     /\ \/ validation.at = "validated" /\ validation.errors = << >>
        \/ validation.at = "loaded" /\ validation.kept.kept)
        => ExactlyOneMatching(validation.example.expected_response)

\* C24: the assistant text the installer's compiler synthesizes for a
\* non-empty command c without delimiter characters is classified as the
\* command c, trimmed, by the evaluator's extractor, by parse_response and by
\* the server's decoder.
C24_OneEncoding ==
    (/\ pc \in {"target_evaluated", "target_parsed", "target_decoded"}
     /\ example.expected_response.type = "command"
     /\ strip(example.expected_response.command) # << >>
     /\ \A i \in DOMAIN example.expected_response.command :
            example.expected_response.command[i] \notin DelimiterSyms)
        => LET c == strip(example.expected_response.command)
           IN  /\ pc = "target_evaluated"
                   => result = [command |-> Str(c), text |-> None]
               /\ pc = "target_parsed"
                   => ("type" \in DOMAIN result /\ result.type = "command"
                       /\ result.command = c)
               /\ pc = "target_decoded"
                   => (IsCommand(result) /\ result.command = c)

\* C23: after format_example_for_training of either trainer and after
\* generate, the caller's list of messages has the length and the turns it
\* had before the call; the system turn and the assistant turn are in other
\* lists.
C23_CallerMessagesUnchanged ==
    pc \in {"formatted", "generic_formatted", "generated"}
        => /\ Len(heap[1]) = Len(example.messages)
           /\ heap[1] = example.messages

\* each of the three calls has built a longer list next to the caller's:
\* the history with a system turn in front, or with the assistant turn at
\* its end
C23_Witness ==
    /\ pc \in {"formatted", "generic_formatted", "generated"}
    /\ heap[1] = example.messages
    /\ Len(heap[Len(heap)]) > Len(heap[1])
    /\ \/ pc = "generated" /\ Head(heap[Len(heap)]).role = "system"
       \/ /\ pc # "generated"
          /\ heap[Len(heap)][Len(heap[Len(heap)])].role = "assistant"

\* C25: a command has been given to the shell only if --execute was given,
\* --dry-run was not, and, under --confirm, the format is not raw and the
\* user typed y (in either case); it is then the extracted command, given
\* once.  In every other run the process has ended, or will end, with no
\* command given to the shell.
C25_RunsOnlyWhenAsked ==
    /\ runner.ran # << >> =>
        /\ runner.args.execute /\ ~runner.args.dry_run
        /\ runner.args.confirm =>
            /\ runner.args.format # "raw"
            /\ runner.response \in {Str("y"), Str("Y")}
        /\ runner.command # None
        /\ runner.ran = << runner.command.v >>
    /\ (runner.at = "exited" /\ runner.ran = << >>) =>
        \/ runner.command = None
        \/ ~runner.args.execute \/ runner.args.dry_run
        \/ runner.args.confirm
            /\ \/ runner.args.format = "raw"
               \/ runner.response \notin {Str("y"), Str("Y")}

\* the command ran after the user typed Y at the prompt
C25_Witness ==
    /\ runner.at = "exited" /\ runner.ran = << << "lsblk" >> >>
    /\ runner.args.execute /\ runner.args.confirm
    /\ runner.response = Str("Y")

\* C26: add_typos(text, prob=0) returns text, whatever the random module
\* draws.
C26_ProbZeroUnchanged ==
    (typos.at = "returned" /\ typos.prob = 0)
        => typos.result = Str(typos.text)

\* the result the j-th configuration must have in the file, given what its
\* training and its evaluation came to
ResultOf(j, r) ==
    LET o == sweep.outcomes[j]
        trained == o.training \in {"logged eval_loss", "no eval_loss"}
    IN  /\ r.config = sweep.configs[j].rank
        /\ r.success = trained
        /\ "evaluation" \in DOMAIN o => trained
        /\ "command_accuracy" \in DOMAIN r
               <=> ("evaluation" \in DOMAIN o
                    /\ o.evaluation = "results written")
        /\ "eval_error" \in DOMAIN r
               <=> ("evaluation" \in DOMAIN o
                    /\ o.evaluation # "results written")

\* the configurations processed so far
Processed == sweep.i - 1

\* C27: between two iterations and after the last, sweep_results.json holds
\* the results of the configurations processed so far, one each, in order;
\* evaluate_lora.py is started for a configuration only right after its
\* training returned success; each configuration is trained once, in order,
\* whatever the earlier ones came to, and the loop ends only after the last.
C27_ResultsAfterEach ==
    /\ (sweep.at \in {"train", "summary"} /\ Processed >= 1) =>
        /\ Len(sweep.results_file.results) = Processed
        /\ \A j \in 1..Processed :
               ResultOf(j, sweep.results_file.results[j])
    /\ \A p \in DOMAIN sweep.processes :
           sweep.processes[p][2] = "evaluate_lora.py" =>
               /\ p > 1
               /\ sweep.processes[p - 1]
                      = << sweep.processes[p][1], "train_lora.py" >>
               /\ sweep.outcomes[sweep.processes[p][1]].training
                      \in {"logged eval_loss", "no eval_loss"}
    /\ SelectSeq(sweep.processes, LAMBDA x : x[2] = "train_lora.py")
           = [j \in 1..Len(sweep.outcomes) |-> << j, "train_lora.py" >>]
    /\ sweep.at = "summary" => Processed = Len(sweep.configs)
    /\ sweep.at # "summary" => ENABLED NextSweep

\* the first configuration failed, the second was trained and evaluated,
\* and the file holds both results
C27_Witness ==
    /\ sweep.at = "summary" /\ Len(sweep.configs) >= 2
    /\ ~sweep.results_file.results[1].success
    /\ sweep.results_file.results[2].success
    /\ "command_accuracy" \in DOMAIN sweep.results_file.results[2]

\* C28: over all the runs of run_sync, the output file holds at most one
\* annotation of each example index.
C28_AnnotatedAtMostOnce ==
    \A i, j \in DOMAIN sync.output_file :
        sync.output_file[i].idx = sync.output_file[j].idx => i = j

\* C29: the file cmd_annotate saves holds one record for each selected
\* example, in order: the example itself, or its copy with a thinking added
\* to its expected_response.
C29_OneRecordEach ==
    annotation.output # None =>
        /\ Len(annotation.output.lines) = Len(annotation.to_annotate)
        /\ \A k \in DOMAIN annotation.output.lines :
            LET written == annotation.output.lines[k]
                chosen == annotation.to_annotate[k]
            IN  \/ written = chosen
                \/ /\ "thinking" \in DOMAIN written.expected_response
                   /\ written = with_annotation(chosen,
                                    written.expected_response.thinking)

=============================================================================
